---------------------------- MODULE Spec2Model ----------------------------
(***************************************************************************)
(* Renee(A) -> Renee(B) converter (src/transform.py).                      *)
(*                                                                         *)
(* Python values are records tagged by type:                               *)
(*   None                      [t |-> "none"]                              *)
(*   int n                     [t |-> "int",   n |-> n]                    *)
(*   bool b                    [t |-> "bool",  b |-> b]   (an int subclass)*)
(*   float, finite, = x10/10   [t |-> "float", k |-> "fin", x10 |-> x10]   *)
(*   float -0.0                [t |-> "float", k |-> "nzero"]              *)
(*   float inf / -inf / nan    [t |-> "float", k |-> "inf"|"ninf"|"nan"]   *)
(*   str                       [t |-> "str",   s |-> <<code points>>]      *)
(*   any other cell type       [t |-> "other", s |-> <<text of str()>>]    *)
(* A str is the sequence of its Unicode code points, so that strip,        *)
(* upper, the regular expressions and ord(ch) > 127 are computed on the    *)
(* characters.  A raised exception is the outcome [t |-> "raise"].         *)
(***************************************************************************)
EXTENDS Integers, Sequences, FiniteSets, TLC

VARIABLES
    pc,                 \* position of the running function
    \* ---- a single normaliser call
    fn, arg, flag, result,
    \* ---- build_inventory_from_a
    ws_a,               \* sheet A: [cells, merged, max_row]
    defect_exclusion,
    blk, r_a,           \* loop indices of the block / row loops
    current_model_raw, current_blade_raw,
    summed,             \* the defaultdict: key -> [L, R]
    inv,                \* the returned map: key -> <<L, R>>
    row_key,            \* history: the key given to each (block, row) scanned
    \* ---- apply_to_b_template / ensure_style_column
    ws_in,              \* the template as loaded (history)
    ws,                 \* the template sheet being mutated: [cells, width]
    filldown_b_template,
    last_row, r_b,
    current_model, current_style, current_blade,
    work_key,           \* history: the working key of each template row scanned
    out_file,           \* what wb_out.save wrote
    calls, inserted     \* ensure_style_column: calls made, columns inserted

vars == <<pc, fn, arg, flag, result,
          ws_a, defect_exclusion, blk, r_a, current_model_raw,
          current_blade_raw, summed, inv, row_key,
          ws_in, ws, filldown_b_template, last_row, r_b,
          current_model, current_style, current_blade, work_key, out_file,
          calls, inserted>>

-----------------------------------------------------------------------------
(* Python values *)

None == [t |-> "none"]
PyInt(n) == [t |-> "int", n |-> n]
PyBool(b) == [t |-> "bool", b |-> b]
PyFloat(x10) == [t |-> "float", k |-> "fin", x10 |-> x10]
PyInf == [t |-> "float", k |-> "inf", x10 |-> 0]
PyNegInf == [t |-> "float", k |-> "ninf", x10 |-> 0]
PyNaN == [t |-> "float", k |-> "nan", x10 |-> 0]
PyStr(s) == [t |-> "str", s |-> s]
\* a cell of another type (a date, a time, ...): s is the text str() gives
PyOther(s) == [t |-> "other", s |-> s]
\* the float -0.0
PyNegZero == [t |-> "float", k |-> "nzero", x10 |-> 0]
Raise(e) == [t |-> "raise", e |-> e]

IsRaise(v) == v.t = "raise"

\* Python truthiness of an Optional[str] (None and "" are falsy).
Truthy(v) == v.t = "str" /\ v.s # <<>>

SetMin(S) == CHOOSE x \in S : \A y \in S : x <= y
SetMax(S) == CHOOSE x \in S : \A y \in S : x >= y

-----------------------------------------------------------------------------
(* Characters, as Python 3.11 (Unicode 14.0) classifies and maps them.      *)
(* A str is a sequence of code points.                                     *)

\* str.isspace / the regular expression class \s
IsSpace(c) ==
    c \in {9, 10, 11, 12, 13, 28, 29, 30, 31, 32, 133, 160, 5760,
           8232, 8233, 8239, 8287, 12288} \cup (8192..8202)

\* the digit zero of every decimal system of category Nd; the digits 1 to 9
\* of the system follow it
DigitZeros ==
    { 48, 1632, 1776, 1984, 2406, 2534, 2662, 2790, 2918, 3046, 3174, 3302,
      3430, 3558, 3664, 3792, 3872, 4160, 4240, 6112, 6160, 6470, 6608, 6784,
      6800, 6992, 7088, 7232, 7248, 42528, 43216, 43264, 43472, 43504, 43600,
      44016, 65296, 66720, 68912, 69734, 69872, 69942, 70096, 70384, 70736,
      70864, 71248, 71360, 71472, 71904, 72016, 72784, 73040, 73120, 92768,
      92864, 93008, 120782, 120792, 120802, 120812, 120822, 123200, 123632,
      125264, 130032 }

\* the regular expression class \d on str: every character of category Nd
IsDigit(c) ==
    IF c < 128 THEN c \in 48..57
    ELSE \E z \in DigitZeros : z <= c /\ c <= z + 9

\* the value int() gives the digit
DigitValue(c) ==
    IF c < 128 THEN c - 48
    ELSE c - (CHOOSE z \in DigitZeros : z <= c /\ c <= z + 9)

\* in range(lo, hi + 1, step)
InRule(c, rule) ==
    rule[1] <= c /\ c <= rule[2] /\ (c - rule[1]) % rule[3] = 0

\* the simple upper-case mappings, as <<lo, hi, step, delta>>: every code
\* point c of range(lo, hi + 1, step) maps to c + delta
UpperRules ==
    { <<97, 122, 1, -32>>, <<181, 181, 1, 743>>, <<224, 246, 1, -32>>,
      <<248, 254, 1, -32>>, <<255, 255, 1, 121>>, <<257, 303, 2, -1>>,
      <<305, 305, 1, -232>>, <<307, 311, 2, -1>>, <<314, 328, 2, -1>>,
      <<331, 375, 2, -1>>, <<378, 382, 2, -1>>, <<383, 383, 1, -300>>,
      <<384, 384, 1, 195>>, <<387, 389, 2, -1>>, <<392, 392, 1, -1>>,
      <<396, 396, 1, -1>>, <<402, 402, 1, -1>>, <<405, 405, 1, 97>>,
      <<409, 409, 1, -1>>, <<410, 410, 1, 163>>, <<414, 414, 1, 130>>,
      <<417, 421, 2, -1>>, <<424, 424, 1, -1>>, <<429, 429, 1, -1>>,
      <<432, 432, 1, -1>>, <<436, 438, 2, -1>>, <<441, 441, 1, -1>>,
      <<445, 445, 1, -1>>, <<447, 447, 1, 56>>, <<453, 453, 1, -1>>,
      <<454, 454, 1, -2>>, <<456, 456, 1, -1>>, <<457, 457, 1, -2>>,
      <<459, 459, 1, -1>>, <<460, 460, 1, -2>>, <<462, 476, 2, -1>>,
      <<477, 477, 1, -79>>, <<479, 495, 2, -1>>, <<498, 498, 1, -1>>,
      <<499, 499, 1, -2>>, <<501, 501, 1, -1>>, <<505, 543, 2, -1>>,
      <<547, 563, 2, -1>>, <<572, 572, 1, -1>>, <<575, 576, 1, 10815>>,
      <<578, 578, 1, -1>>, <<583, 591, 2, -1>>, <<592, 592, 1, 10783>>,
      <<593, 593, 1, 10780>>, <<594, 594, 1, 10782>>, <<595, 595, 1, -210>>,
      <<596, 596, 1, -206>>, <<598, 599, 1, -205>>, <<601, 601, 1, -202>>,
      <<603, 603, 1, -203>>, <<604, 604, 1, 42319>>, <<608, 608, 1, -205>>,
      <<609, 609, 1, 42315>>, <<611, 611, 1, -207>>, <<613, 613, 1, 42280>>,
      <<614, 614, 1, 42308>>, <<616, 616, 1, -209>>, <<617, 617, 1, -211>>,
      <<618, 618, 1, 42308>>, <<619, 619, 1, 10743>>, <<620, 620, 1, 42305>>,
      <<623, 623, 1, -211>>, <<625, 625, 1, 10749>>, <<626, 626, 1, -213>>,
      <<629, 629, 1, -214>>, <<637, 637, 1, 10727>>, <<640, 640, 1, -218>>,
      <<642, 642, 1, 42307>>, <<643, 643, 1, -218>>, <<647, 647, 1, 42282>>,
      <<648, 648, 1, -218>>, <<649, 649, 1, -69>>, <<650, 651, 1, -217>>,
      <<652, 652, 1, -71>>, <<658, 658, 1, -219>>, <<669, 669, 1, 42261>>,
      <<670, 670, 1, 42258>>, <<837, 837, 1, 84>>, <<881, 883, 2, -1>>,
      <<887, 887, 1, -1>>, <<891, 893, 1, 130>>, <<940, 940, 1, -38>>,
      <<941, 943, 1, -37>>, <<945, 961, 1, -32>>, <<962, 962, 1, -31>>,
      <<963, 971, 1, -32>>, <<972, 972, 1, -64>>, <<973, 974, 1, -63>>,
      <<976, 976, 1, -62>>, <<977, 977, 1, -57>>, <<981, 981, 1, -47>>,
      <<982, 982, 1, -54>>, <<983, 983, 1, -8>>, <<985, 1007, 2, -1>>,
      <<1008, 1008, 1, -86>>, <<1009, 1009, 1, -80>>, <<1010, 1010, 1, 7>>,
      <<1011, 1011, 1, -116>>, <<1013, 1013, 1, -96>>, <<1016, 1016, 1, -1>>,
      <<1019, 1019, 1, -1>>, <<1072, 1103, 1, -32>>, <<1104, 1119, 1, -80>>,
      <<1121, 1153, 2, -1>>, <<1163, 1215, 2, -1>>, <<1218, 1230, 2, -1>>,
      <<1231, 1231, 1, -15>>, <<1233, 1327, 2, -1>>, <<1377, 1414, 1, -48>>,
      <<4304, 4346, 1, 3008>>, <<4349, 4351, 1, 3008>>, <<5112, 5117, 1, -8>>,
      <<7296, 7296, 1, -6254>>, <<7297, 7297, 1, -6253>>,
      <<7298, 7298, 1, -6244>>, <<7299, 7300, 1, -6242>>,
      <<7301, 7301, 1, -6243>>, <<7302, 7302, 1, -6236>>,
      <<7303, 7303, 1, -6181>>, <<7304, 7304, 1, 35266>>,
      <<7545, 7545, 1, 35332>>, <<7549, 7549, 1, 3814>>,
      <<7566, 7566, 1, 35384>>, <<7681, 7829, 2, -1>>, <<7835, 7835, 1, -59>>,
      <<7841, 7935, 2, -1>>, <<7936, 7943, 1, 8>>, <<7952, 7957, 1, 8>>,
      <<7968, 7975, 1, 8>>, <<7984, 7991, 1, 8>>, <<8000, 8005, 1, 8>>,
      <<8017, 8023, 2, 8>>, <<8032, 8039, 1, 8>>, <<8048, 8049, 1, 74>>,
      <<8050, 8053, 1, 86>>, <<8054, 8055, 1, 100>>, <<8056, 8057, 1, 128>>,
      <<8058, 8059, 1, 112>>, <<8060, 8061, 1, 126>>, <<8112, 8113, 1, 8>>,
      <<8126, 8126, 1, -7205>>, <<8144, 8145, 1, 8>>, <<8160, 8161, 1, 8>>,
      <<8165, 8165, 1, 7>>, <<8526, 8526, 1, -28>>, <<8560, 8575, 1, -16>>,
      <<8580, 8580, 1, -1>>, <<9424, 9449, 1, -26>>, <<11312, 11359, 1, -48>>,
      <<11361, 11361, 1, -1>>, <<11365, 11365, 1, -10795>>,
      <<11366, 11366, 1, -10792>>, <<11368, 11372, 2, -1>>,
      <<11379, 11379, 1, -1>>, <<11382, 11382, 1, -1>>,
      <<11393, 11491, 2, -1>>, <<11500, 11502, 2, -1>>,
      <<11507, 11507, 1, -1>>, <<11520, 11557, 1, -7264>>,
      <<11559, 11559, 1, -7264>>, <<11565, 11565, 1, -7264>>,
      <<42561, 42605, 2, -1>>, <<42625, 42651, 2, -1>>,
      <<42787, 42799, 2, -1>>, <<42803, 42863, 2, -1>>,
      <<42874, 42876, 2, -1>>, <<42879, 42887, 2, -1>>,
      <<42892, 42892, 1, -1>>, <<42897, 42899, 2, -1>>,
      <<42900, 42900, 1, 48>>, <<42903, 42921, 2, -1>>,
      <<42933, 42947, 2, -1>>, <<42952, 42954, 2, -1>>,
      <<42961, 42961, 1, -1>>, <<42967, 42969, 2, -1>>,
      <<42998, 42998, 1, -1>>, <<43859, 43859, 1, -928>>,
      <<43888, 43967, 1, -38864>>, <<65345, 65370, 1, -32>>,
      <<66600, 66639, 1, -40>>, <<66776, 66811, 1, -40>>,
      <<66967, 67003, 2, -39>>, <<66968, 66976, 2, -39>>,
      <<66980, 66992, 2, -39>>, <<66996, 67000, 2, -39>>,
      <<67004, 67004, 1, -39>>, <<68800, 68850, 1, -64>>,
      <<71872, 71903, 1, -32>>, <<93792, 93823, 1, -32>>,
      <<125218, 125251, 1, -34>> }

\* the upper-case mappings to more than one character, as <<c, mapping>>
UpperSpecial ==
    { <<223, <<83, 83>>>>, <<329, <<700, 78>>>>, <<496, <<74, 780>>>>,
      <<912, <<921, 776, 769>>>>, <<944, <<933, 776, 769>>>>,
      <<1415, <<1333, 1362>>>>, <<7830, <<72, 817>>>>, <<7831, <<84, 776>>>>,
      <<7832, <<87, 778>>>>, <<7833, <<89, 778>>>>, <<7834, <<65, 702>>>>,
      <<8016, <<933, 787>>>>, <<8018, <<933, 787, 768>>>>,
      <<8020, <<933, 787, 769>>>>, <<8022, <<933, 787, 834>>>>,
      <<8064, <<7944, 921>>>>, <<8065, <<7945, 921>>>>,
      <<8066, <<7946, 921>>>>, <<8067, <<7947, 921>>>>,
      <<8068, <<7948, 921>>>>, <<8069, <<7949, 921>>>>,
      <<8070, <<7950, 921>>>>, <<8071, <<7951, 921>>>>,
      <<8072, <<7944, 921>>>>, <<8073, <<7945, 921>>>>,
      <<8074, <<7946, 921>>>>, <<8075, <<7947, 921>>>>,
      <<8076, <<7948, 921>>>>, <<8077, <<7949, 921>>>>,
      <<8078, <<7950, 921>>>>, <<8079, <<7951, 921>>>>,
      <<8080, <<7976, 921>>>>, <<8081, <<7977, 921>>>>,
      <<8082, <<7978, 921>>>>, <<8083, <<7979, 921>>>>,
      <<8084, <<7980, 921>>>>, <<8085, <<7981, 921>>>>,
      <<8086, <<7982, 921>>>>, <<8087, <<7983, 921>>>>,
      <<8088, <<7976, 921>>>>, <<8089, <<7977, 921>>>>,
      <<8090, <<7978, 921>>>>, <<8091, <<7979, 921>>>>,
      <<8092, <<7980, 921>>>>, <<8093, <<7981, 921>>>>,
      <<8094, <<7982, 921>>>>, <<8095, <<7983, 921>>>>,
      <<8096, <<8040, 921>>>>, <<8097, <<8041, 921>>>>,
      <<8098, <<8042, 921>>>>, <<8099, <<8043, 921>>>>,
      <<8100, <<8044, 921>>>>, <<8101, <<8045, 921>>>>,
      <<8102, <<8046, 921>>>>, <<8103, <<8047, 921>>>>,
      <<8104, <<8040, 921>>>>, <<8105, <<8041, 921>>>>,
      <<8106, <<8042, 921>>>>, <<8107, <<8043, 921>>>>,
      <<8108, <<8044, 921>>>>, <<8109, <<8045, 921>>>>,
      <<8110, <<8046, 921>>>>, <<8111, <<8047, 921>>>>,
      <<8114, <<8122, 921>>>>, <<8115, <<913, 921>>>>, <<8116, <<902, 921>>>>,
      <<8118, <<913, 834>>>>, <<8119, <<913, 834, 921>>>>,
      <<8124, <<913, 921>>>>, <<8130, <<8138, 921>>>>, <<8131, <<919, 921>>>>,
      <<8132, <<905, 921>>>>, <<8134, <<919, 834>>>>,
      <<8135, <<919, 834, 921>>>>, <<8140, <<919, 921>>>>,
      <<8146, <<921, 776, 768>>>>, <<8147, <<921, 776, 769>>>>,
      <<8150, <<921, 834>>>>, <<8151, <<921, 776, 834>>>>,
      <<8162, <<933, 776, 768>>>>, <<8163, <<933, 776, 769>>>>,
      <<8164, <<929, 787>>>>, <<8166, <<933, 834>>>>,
      <<8167, <<933, 776, 834>>>>, <<8178, <<8186, 921>>>>,
      <<8179, <<937, 921>>>>, <<8180, <<911, 921>>>>, <<8182, <<937, 834>>>>,
      <<8183, <<937, 834, 921>>>>, <<8188, <<937, 921>>>>,
      <<64256, <<70, 70>>>>, <<64257, <<70, 73>>>>, <<64258, <<70, 76>>>>,
      <<64259, <<70, 70, 73>>>>, <<64260, <<70, 70, 76>>>>,
      <<64261, <<83, 84>>>>, <<64262, <<83, 84>>>>, <<64275, <<1348, 1350>>>>,
      <<64276, <<1348, 1333>>>>, <<64277, <<1348, 1339>>>>,
      <<64278, <<1358, 1350>>>>, <<64279, <<1348, 1341>>>> }

\* the simple lower-case mappings, as <<lo, hi, step, delta>>
LowerRules ==
    { <<65, 90, 1, 32>>, <<192, 214, 1, 32>>, <<216, 222, 1, 32>>,
      <<256, 302, 2, 1>>, <<306, 310, 2, 1>>, <<313, 327, 2, 1>>,
      <<330, 374, 2, 1>>, <<376, 376, 1, -121>>, <<377, 381, 2, 1>>,
      <<385, 385, 1, 210>>, <<386, 388, 2, 1>>, <<390, 390, 1, 206>>,
      <<391, 391, 1, 1>>, <<393, 394, 1, 205>>, <<395, 395, 1, 1>>,
      <<398, 398, 1, 79>>, <<399, 399, 1, 202>>, <<400, 400, 1, 203>>,
      <<401, 401, 1, 1>>, <<403, 403, 1, 205>>, <<404, 404, 1, 207>>,
      <<406, 406, 1, 211>>, <<407, 407, 1, 209>>, <<408, 408, 1, 1>>,
      <<412, 412, 1, 211>>, <<413, 413, 1, 213>>, <<415, 415, 1, 214>>,
      <<416, 420, 2, 1>>, <<422, 422, 1, 218>>, <<423, 423, 1, 1>>,
      <<425, 425, 1, 218>>, <<428, 428, 1, 1>>, <<430, 430, 1, 218>>,
      <<431, 431, 1, 1>>, <<433, 434, 1, 217>>, <<435, 437, 2, 1>>,
      <<439, 439, 1, 219>>, <<440, 440, 1, 1>>, <<444, 444, 1, 1>>,
      <<452, 452, 1, 2>>, <<453, 453, 1, 1>>, <<455, 455, 1, 2>>,
      <<456, 456, 1, 1>>, <<458, 458, 1, 2>>, <<459, 475, 2, 1>>,
      <<478, 494, 2, 1>>, <<497, 497, 1, 2>>, <<498, 500, 2, 1>>,
      <<502, 502, 1, -97>>, <<503, 503, 1, -56>>, <<504, 542, 2, 1>>,
      <<544, 544, 1, -130>>, <<546, 562, 2, 1>>, <<570, 570, 1, 10795>>,
      <<571, 571, 1, 1>>, <<573, 573, 1, -163>>, <<574, 574, 1, 10792>>,
      <<577, 577, 1, 1>>, <<579, 579, 1, -195>>, <<580, 580, 1, 69>>,
      <<581, 581, 1, 71>>, <<582, 590, 2, 1>>, <<880, 882, 2, 1>>,
      <<886, 886, 1, 1>>, <<895, 895, 1, 116>>, <<902, 902, 1, 38>>,
      <<904, 906, 1, 37>>, <<908, 908, 1, 64>>, <<910, 911, 1, 63>>,
      <<913, 929, 1, 32>>, <<931, 939, 1, 32>>, <<975, 975, 1, 8>>,
      <<984, 1006, 2, 1>>, <<1012, 1012, 1, -60>>, <<1015, 1015, 1, 1>>,
      <<1017, 1017, 1, -7>>, <<1018, 1018, 1, 1>>, <<1021, 1023, 1, -130>>,
      <<1024, 1039, 1, 80>>, <<1040, 1071, 1, 32>>, <<1120, 1152, 2, 1>>,
      <<1162, 1214, 2, 1>>, <<1216, 1216, 1, 15>>, <<1217, 1229, 2, 1>>,
      <<1232, 1326, 2, 1>>, <<1329, 1366, 1, 48>>, <<4256, 4293, 1, 7264>>,
      <<4295, 4295, 1, 7264>>, <<4301, 4301, 1, 7264>>,
      <<5024, 5103, 1, 38864>>, <<5104, 5109, 1, 8>>,
      <<7312, 7354, 1, -3008>>, <<7357, 7359, 1, -3008>>,
      <<7680, 7828, 2, 1>>, <<7838, 7838, 1, -7615>>, <<7840, 7934, 2, 1>>,
      <<7944, 7951, 1, -8>>, <<7960, 7965, 1, -8>>, <<7976, 7983, 1, -8>>,
      <<7992, 7999, 1, -8>>, <<8008, 8013, 1, -8>>, <<8025, 8031, 2, -8>>,
      <<8040, 8047, 1, -8>>, <<8072, 8079, 1, -8>>, <<8088, 8095, 1, -8>>,
      <<8104, 8111, 1, -8>>, <<8120, 8121, 1, -8>>, <<8122, 8123, 1, -74>>,
      <<8124, 8124, 1, -9>>, <<8136, 8139, 1, -86>>, <<8140, 8140, 1, -9>>,
      <<8152, 8153, 1, -8>>, <<8154, 8155, 1, -100>>, <<8168, 8169, 1, -8>>,
      <<8170, 8171, 1, -112>>, <<8172, 8172, 1, -7>>, <<8184, 8185, 1, -128>>,
      <<8186, 8187, 1, -126>>, <<8188, 8188, 1, -9>>,
      <<8486, 8486, 1, -7517>>, <<8490, 8490, 1, -8383>>,
      <<8491, 8491, 1, -8262>>, <<8498, 8498, 1, 28>>, <<8544, 8559, 1, 16>>,
      <<8579, 8579, 1, 1>>, <<9398, 9423, 1, 26>>, <<11264, 11311, 1, 48>>,
      <<11360, 11360, 1, 1>>, <<11362, 11362, 1, -10743>>,
      <<11363, 11363, 1, -3814>>, <<11364, 11364, 1, -10727>>,
      <<11367, 11371, 2, 1>>, <<11373, 11373, 1, -10780>>,
      <<11374, 11374, 1, -10749>>, <<11375, 11375, 1, -10783>>,
      <<11376, 11376, 1, -10782>>, <<11378, 11378, 1, 1>>,
      <<11381, 11381, 1, 1>>, <<11390, 11391, 1, -10815>>,
      <<11392, 11490, 2, 1>>, <<11499, 11501, 2, 1>>, <<11506, 11506, 1, 1>>,
      <<42560, 42604, 2, 1>>, <<42624, 42650, 2, 1>>, <<42786, 42798, 2, 1>>,
      <<42802, 42862, 2, 1>>, <<42873, 42875, 2, 1>>,
      <<42877, 42877, 1, -35332>>, <<42878, 42886, 2, 1>>,
      <<42891, 42891, 1, 1>>, <<42893, 42893, 1, -42280>>,
      <<42896, 42898, 2, 1>>, <<42902, 42920, 2, 1>>,
      <<42922, 42922, 1, -42308>>, <<42923, 42923, 1, -42319>>,
      <<42924, 42924, 1, -42315>>, <<42925, 42925, 1, -42305>>,
      <<42926, 42926, 1, -42308>>, <<42928, 42928, 1, -42258>>,
      <<42929, 42929, 1, -42282>>, <<42930, 42930, 1, -42261>>,
      <<42931, 42931, 1, 928>>, <<42932, 42946, 2, 1>>,
      <<42948, 42948, 1, -48>>, <<42949, 42949, 1, -42307>>,
      <<42950, 42950, 1, -35384>>, <<42951, 42953, 2, 1>>,
      <<42960, 42960, 1, 1>>, <<42966, 42968, 2, 1>>, <<42997, 42997, 1, 1>>,
      <<65313, 65338, 1, 32>>, <<66560, 66599, 1, 40>>,
      <<66736, 66771, 1, 40>>, <<66928, 66964, 2, 39>>,
      <<66929, 66937, 2, 39>>, <<66941, 66953, 2, 39>>,
      <<66957, 66961, 2, 39>>, <<66965, 66965, 1, 39>>,
      <<68736, 68786, 1, 64>>, <<71840, 71871, 1, 32>>,
      <<93760, 93791, 1, 32>>, <<125184, 125217, 1, 34>> }

\* the lower-case mappings to more than one character
LowerSpecial ==
    { <<304, <<105, 775>>>> }

\* the mapping of c by a table of rules and a table of special cases
CaseMap(c, rules, special) ==
    IF \E sp \in special : sp[1] = c
    THEN (CHOOSE sp \in special : sp[1] = c)[2]
    ELSE IF \E rule \in rules : InRule(c, rule)
    THEN << c + (CHOOSE rule \in rules : InRule(c, rule))[4] >>
    ELSE << c >>

\* chr(c).upper(), a str of one to three characters
ChUpper(c) ==
    IF c < 128 THEN (IF c \in 97..122 THEN << c - 32 >> ELSE << c >>)
    ELSE CaseMap(c, UpperRules, UpperSpecial)

\* chr(c).lower()
ChLower(c) ==
    IF c < 128 THEN (IF c \in 65..90 THEN << c + 32 >> ELSE << c >>)
    ELSE CaseMap(c, LowerRules, LowerSpecial)

\* the ranges <<lo, hi>> of the cased characters (upper-case, lower-case
\* and title-case)
CasedRanges ==
    { <<65, 90>>, <<97, 122>>, <<170, 170>>, <<181, 181>>, <<186, 186>>,
      <<192, 214>>, <<216, 246>>, <<248, 442>>, <<444, 447>>, <<452, 659>>,
      <<661, 696>>, <<704, 705>>, <<736, 740>>, <<837, 837>>, <<880, 883>>,
      <<886, 887>>, <<890, 893>>, <<895, 895>>, <<902, 902>>, <<904, 906>>,
      <<908, 908>>, <<910, 929>>, <<931, 1013>>, <<1015, 1153>>,
      <<1162, 1327>>, <<1329, 1366>>, <<1376, 1416>>, <<4256, 4293>>,
      <<4295, 4295>>, <<4301, 4301>>, <<4304, 4346>>, <<4349, 4351>>,
      <<5024, 5109>>, <<5112, 5117>>, <<7296, 7304>>, <<7312, 7354>>,
      <<7357, 7359>>, <<7424, 7615>>, <<7680, 7957>>, <<7960, 7965>>,
      <<7968, 8005>>, <<8008, 8013>>, <<8016, 8023>>, <<8025, 8025>>,
      <<8027, 8027>>, <<8029, 8029>>, <<8031, 8061>>, <<8064, 8116>>,
      <<8118, 8124>>, <<8126, 8126>>, <<8130, 8132>>, <<8134, 8140>>,
      <<8144, 8147>>, <<8150, 8155>>, <<8160, 8172>>, <<8178, 8180>>,
      <<8182, 8188>>, <<8305, 8305>>, <<8319, 8319>>, <<8336, 8348>>,
      <<8450, 8450>>, <<8455, 8455>>, <<8458, 8467>>, <<8469, 8469>>,
      <<8473, 8477>>, <<8484, 8484>>, <<8486, 8486>>, <<8488, 8488>>,
      <<8490, 8493>>, <<8495, 8500>>, <<8505, 8505>>, <<8508, 8511>>,
      <<8517, 8521>>, <<8526, 8526>>, <<8544, 8575>>, <<8579, 8580>>,
      <<9398, 9449>>, <<11264, 11492>>, <<11499, 11502>>, <<11506, 11507>>,
      <<11520, 11557>>, <<11559, 11559>>, <<11565, 11565>>, <<42560, 42605>>,
      <<42624, 42653>>, <<42786, 42887>>, <<42891, 42894>>, <<42896, 42954>>,
      <<42960, 42961>>, <<42963, 42963>>, <<42965, 42969>>, <<42997, 42998>>,
      <<43000, 43002>>, <<43824, 43866>>, <<43868, 43880>>, <<43888, 43967>>,
      <<64256, 64262>>, <<64275, 64279>>, <<65313, 65338>>, <<65345, 65370>>,
      <<66560, 66639>>, <<66736, 66771>>, <<66776, 66811>>, <<66928, 66938>>,
      <<66940, 66954>>, <<66956, 66962>>, <<66964, 66965>>, <<66967, 66977>>,
      <<66979, 66993>>, <<66995, 67001>>, <<67003, 67004>>, <<67456, 67456>>,
      <<67459, 67461>>, <<67463, 67504>>, <<67506, 67514>>, <<68736, 68786>>,
      <<68800, 68850>>, <<71840, 71903>>, <<93760, 93823>>,
      <<119808, 119892>>, <<119894, 119964>>, <<119966, 119967>>,
      <<119970, 119970>>, <<119973, 119974>>, <<119977, 119980>>,
      <<119982, 119993>>, <<119995, 119995>>, <<119997, 120003>>,
      <<120005, 120069>>, <<120071, 120074>>, <<120077, 120084>>,
      <<120086, 120092>>, <<120094, 120121>>, <<120123, 120126>>,
      <<120128, 120132>>, <<120134, 120134>>, <<120138, 120144>>,
      <<120146, 120485>>, <<120488, 120512>>, <<120514, 120538>>,
      <<120540, 120570>>, <<120572, 120596>>, <<120598, 120628>>,
      <<120630, 120654>>, <<120656, 120686>>, <<120688, 120712>>,
      <<120714, 120744>>, <<120746, 120770>>, <<120772, 120779>>,
      <<122624, 122633>>, <<122635, 122654>>, <<125184, 125251>>,
      <<127280, 127305>>, <<127312, 127337>>, <<127344, 127369>> }

\* the ranges <<lo, hi>> of the case-ignorable characters
CaseIgnorableRanges ==
    { <<39, 39>>, <<46, 46>>, <<58, 58>>, <<94, 94>>, <<96, 96>>,
      <<168, 168>>, <<173, 173>>, <<175, 175>>, <<180, 180>>, <<183, 184>>,
      <<688, 879>>, <<884, 885>>, <<890, 890>>, <<900, 901>>, <<903, 903>>,
      <<1155, 1161>>, <<1369, 1369>>, <<1375, 1375>>, <<1425, 1469>>,
      <<1471, 1471>>, <<1473, 1474>>, <<1476, 1477>>, <<1479, 1479>>,
      <<1524, 1524>>, <<1536, 1541>>, <<1552, 1562>>, <<1564, 1564>>,
      <<1600, 1600>>, <<1611, 1631>>, <<1648, 1648>>, <<1750, 1757>>,
      <<1759, 1768>>, <<1770, 1773>>, <<1807, 1807>>, <<1809, 1809>>,
      <<1840, 1866>>, <<1958, 1968>>, <<2027, 2037>>, <<2042, 2042>>,
      <<2045, 2045>>, <<2070, 2093>>, <<2137, 2139>>, <<2184, 2184>>,
      <<2192, 2193>>, <<2200, 2207>>, <<2249, 2306>>, <<2362, 2362>>,
      <<2364, 2364>>, <<2369, 2376>>, <<2381, 2381>>, <<2385, 2391>>,
      <<2402, 2403>>, <<2417, 2417>>, <<2433, 2433>>, <<2492, 2492>>,
      <<2497, 2500>>, <<2509, 2509>>, <<2530, 2531>>, <<2558, 2558>>,
      <<2561, 2562>>, <<2620, 2620>>, <<2625, 2626>>, <<2631, 2632>>,
      <<2635, 2637>>, <<2641, 2641>>, <<2672, 2673>>, <<2677, 2677>>,
      <<2689, 2690>>, <<2748, 2748>>, <<2753, 2757>>, <<2759, 2760>>,
      <<2765, 2765>>, <<2786, 2787>>, <<2810, 2815>>, <<2817, 2817>>,
      <<2876, 2876>>, <<2879, 2879>>, <<2881, 2884>>, <<2893, 2893>>,
      <<2901, 2902>>, <<2914, 2915>>, <<2946, 2946>>, <<3008, 3008>>,
      <<3021, 3021>>, <<3072, 3072>>, <<3076, 3076>>, <<3132, 3132>>,
      <<3134, 3136>>, <<3142, 3144>>, <<3146, 3149>>, <<3157, 3158>>,
      <<3170, 3171>>, <<3201, 3201>>, <<3260, 3260>>, <<3263, 3263>>,
      <<3270, 3270>>, <<3276, 3277>>, <<3298, 3299>>, <<3328, 3329>>,
      <<3387, 3388>>, <<3393, 3396>>, <<3405, 3405>>, <<3426, 3427>>,
      <<3457, 3457>>, <<3530, 3530>>, <<3538, 3540>>, <<3542, 3542>>,
      <<3633, 3633>>, <<3636, 3642>>, <<3654, 3662>>, <<3761, 3761>>,
      <<3764, 3772>>, <<3782, 3782>>, <<3784, 3789>>, <<3864, 3865>>,
      <<3893, 3893>>, <<3895, 3895>>, <<3897, 3897>>, <<3953, 3966>>,
      <<3968, 3972>>, <<3974, 3975>>, <<3981, 3991>>, <<3993, 4028>>,
      <<4038, 4038>>, <<4141, 4144>>, <<4146, 4151>>, <<4153, 4154>>,
      <<4157, 4158>>, <<4184, 4185>>, <<4190, 4192>>, <<4209, 4212>>,
      <<4226, 4226>>, <<4229, 4230>>, <<4237, 4237>>, <<4253, 4253>>,
      <<4348, 4348>>, <<4957, 4959>>, <<5906, 5908>>, <<5938, 5939>>,
      <<5970, 5971>>, <<6002, 6003>>, <<6068, 6069>>, <<6071, 6077>>,
      <<6086, 6086>>, <<6089, 6099>>, <<6103, 6103>>, <<6109, 6109>>,
      <<6155, 6159>>, <<6211, 6211>>, <<6277, 6278>>, <<6313, 6313>>,
      <<6432, 6434>>, <<6439, 6440>>, <<6450, 6450>>, <<6457, 6459>>,
      <<6679, 6680>>, <<6683, 6683>>, <<6742, 6742>>, <<6744, 6750>>,
      <<6752, 6752>>, <<6754, 6754>>, <<6757, 6764>>, <<6771, 6780>>,
      <<6783, 6783>>, <<6823, 6823>>, <<6832, 6862>>, <<6912, 6915>>,
      <<6964, 6964>>, <<6966, 6970>>, <<6972, 6972>>, <<6978, 6978>>,
      <<7019, 7027>>, <<7040, 7041>>, <<7074, 7077>>, <<7080, 7081>>,
      <<7083, 7085>>, <<7142, 7142>>, <<7144, 7145>>, <<7149, 7149>>,
      <<7151, 7153>>, <<7212, 7219>>, <<7222, 7223>>, <<7288, 7293>>,
      <<7376, 7378>>, <<7380, 7392>>, <<7394, 7400>>, <<7405, 7405>>,
      <<7412, 7412>>, <<7416, 7417>>, <<7468, 7530>>, <<7544, 7544>>,
      <<7579, 7679>>, <<8125, 8125>>, <<8127, 8129>>, <<8141, 8143>>,
      <<8157, 8159>>, <<8173, 8175>>, <<8189, 8190>>, <<8203, 8207>>,
      <<8216, 8217>>, <<8228, 8228>>, <<8231, 8231>>, <<8234, 8238>>,
      <<8288, 8292>>, <<8294, 8303>>, <<8305, 8305>>, <<8319, 8319>>,
      <<8336, 8348>>, <<8400, 8432>>, <<11388, 11389>>, <<11503, 11505>>,
      <<11631, 11631>>, <<11647, 11647>>, <<11744, 11775>>, <<11823, 11823>>,
      <<12293, 12293>>, <<12330, 12333>>, <<12337, 12341>>, <<12347, 12347>>,
      <<12441, 12446>>, <<12540, 12542>>, <<40981, 40981>>, <<42232, 42237>>,
      <<42508, 42508>>, <<42607, 42610>>, <<42612, 42621>>, <<42623, 42623>>,
      <<42652, 42655>>, <<42736, 42737>>, <<42752, 42785>>, <<42864, 42864>>,
      <<42888, 42890>>, <<42994, 42996>>, <<43000, 43001>>, <<43010, 43010>>,
      <<43014, 43014>>, <<43019, 43019>>, <<43045, 43046>>, <<43052, 43052>>,
      <<43204, 43205>>, <<43232, 43249>>, <<43263, 43263>>, <<43302, 43309>>,
      <<43335, 43345>>, <<43392, 43394>>, <<43443, 43443>>, <<43446, 43449>>,
      <<43452, 43453>>, <<43471, 43471>>, <<43493, 43494>>, <<43561, 43566>>,
      <<43569, 43570>>, <<43573, 43574>>, <<43587, 43587>>, <<43596, 43596>>,
      <<43632, 43632>>, <<43644, 43644>>, <<43696, 43696>>, <<43698, 43700>>,
      <<43703, 43704>>, <<43710, 43711>>, <<43713, 43713>>, <<43741, 43741>>,
      <<43756, 43757>>, <<43763, 43764>>, <<43766, 43766>>, <<43867, 43871>>,
      <<43881, 43883>>, <<44005, 44005>>, <<44008, 44008>>, <<44013, 44013>>,
      <<64286, 64286>>, <<64434, 64450>>, <<65024, 65039>>, <<65043, 65043>>,
      <<65056, 65071>>, <<65106, 65106>>, <<65109, 65109>>, <<65279, 65279>>,
      <<65287, 65287>>, <<65294, 65294>>, <<65306, 65306>>, <<65342, 65342>>,
      <<65344, 65344>>, <<65392, 65392>>, <<65438, 65439>>, <<65507, 65507>>,
      <<65529, 65531>>, <<66045, 66045>>, <<66272, 66272>>, <<66422, 66426>>,
      <<67456, 67461>>, <<67463, 67504>>, <<67506, 67514>>, <<68097, 68099>>,
      <<68101, 68102>>, <<68108, 68111>>, <<68152, 68154>>, <<68159, 68159>>,
      <<68325, 68326>>, <<68900, 68903>>, <<69291, 69292>>, <<69446, 69456>>,
      <<69506, 69509>>, <<69633, 69633>>, <<69688, 69702>>, <<69744, 69744>>,
      <<69747, 69748>>, <<69759, 69761>>, <<69811, 69814>>, <<69817, 69818>>,
      <<69821, 69821>>, <<69826, 69826>>, <<69837, 69837>>, <<69888, 69890>>,
      <<69927, 69931>>, <<69933, 69940>>, <<70003, 70003>>, <<70016, 70017>>,
      <<70070, 70078>>, <<70089, 70092>>, <<70095, 70095>>, <<70191, 70193>>,
      <<70196, 70196>>, <<70198, 70199>>, <<70206, 70206>>, <<70367, 70367>>,
      <<70371, 70378>>, <<70400, 70401>>, <<70459, 70460>>, <<70464, 70464>>,
      <<70502, 70508>>, <<70512, 70516>>, <<70712, 70719>>, <<70722, 70724>>,
      <<70726, 70726>>, <<70750, 70750>>, <<70835, 70840>>, <<70842, 70842>>,
      <<70847, 70848>>, <<70850, 70851>>, <<71090, 71093>>, <<71100, 71101>>,
      <<71103, 71104>>, <<71132, 71133>>, <<71219, 71226>>, <<71229, 71229>>,
      <<71231, 71232>>, <<71339, 71339>>, <<71341, 71341>>, <<71344, 71349>>,
      <<71351, 71351>>, <<71453, 71455>>, <<71458, 71461>>, <<71463, 71467>>,
      <<71727, 71735>>, <<71737, 71738>>, <<71995, 71996>>, <<71998, 71998>>,
      <<72003, 72003>>, <<72148, 72151>>, <<72154, 72155>>, <<72160, 72160>>,
      <<72193, 72202>>, <<72243, 72248>>, <<72251, 72254>>, <<72263, 72263>>,
      <<72273, 72278>>, <<72281, 72283>>, <<72330, 72342>>, <<72344, 72345>>,
      <<72752, 72758>>, <<72760, 72765>>, <<72767, 72767>>, <<72850, 72871>>,
      <<72874, 72880>>, <<72882, 72883>>, <<72885, 72886>>, <<73009, 73014>>,
      <<73018, 73018>>, <<73020, 73021>>, <<73023, 73029>>, <<73031, 73031>>,
      <<73104, 73105>>, <<73109, 73109>>, <<73111, 73111>>, <<73459, 73460>>,
      <<78896, 78904>>, <<92912, 92916>>, <<92976, 92982>>, <<92992, 92995>>,
      <<94031, 94031>>, <<94095, 94111>>, <<94176, 94177>>, <<94179, 94180>>,
      <<110576, 110579>>, <<110581, 110587>>, <<110589, 110590>>,
      <<113821, 113822>>, <<113824, 113827>>, <<118528, 118573>>,
      <<118576, 118598>>, <<119143, 119145>>, <<119155, 119170>>,
      <<119173, 119179>>, <<119210, 119213>>, <<119362, 119364>>,
      <<121344, 121398>>, <<121403, 121452>>, <<121461, 121461>>,
      <<121476, 121476>>, <<121499, 121503>>, <<121505, 121519>>,
      <<122880, 122886>>, <<122888, 122904>>, <<122907, 122913>>,
      <<122915, 122916>>, <<122918, 122922>>, <<123184, 123197>>,
      <<123566, 123566>>, <<123628, 123631>>, <<125136, 125142>>,
      <<125252, 125259>>, <<127995, 127999>>, <<917505, 917505>>,
      <<917536, 917631>>, <<917760, 917999>> }

IsCased(c) == \E rg \in CasedRanges : rg[1] <= c /\ c <= rg[2]

IsCaseIgnorable(c) ==
    \E rg \in CaseIgnorableRanges : rg[1] <= c /\ c <= rg[2]

\* s.upper() of the characters i to j of s: character by character
RECURSIVE UpperOf(_, _, _)
UpperOf(s, i, j) ==
    IF i > j THEN <<>>
    ELSE IF i = j THEN ChUpper(s[i])
    ELSE UpperOf(s, i, (i + j) \div 2) \o UpperOf(s, (i + j) \div 2 + 1, j)

\* str.upper()
StrUpper(s) == UpperOf(s, 1, Len(s))

\* a capital sigma at position i is final: the nearest character before it
\* that is not case-ignorable is cased, and the nearest one after it, if
\* any, is not
FinalSigma(s, i) ==
    LET before == {j \in 1..(i - 1) : ~IsCaseIgnorable(s[j])}
        after == {j \in (i + 1)..Len(s) : ~IsCaseIgnorable(s[j])}
    IN  /\ before # {}
        /\ IsCased(s[SetMax(before)])
        /\ (after = {} \/ ~IsCased(s[SetMin(after)]))

\* s.lower() of the characters i to j of s: character by character, but for
\* the capital sigma (931), which gives the final sigma (962) or the sigma
\* (963)
RECURSIVE LowerOf(_, _, _)
LowerOf(s, i, j) ==
    IF i > j THEN <<>>
    ELSE IF i = j
    THEN (IF s[i] = 931 THEN << IF FinalSigma(s, i) THEN 962 ELSE 963 >>
          ELSE ChLower(s[i]))
    ELSE LowerOf(s, i, (i + j) \div 2) \o LowerOf(s, (i + j) \div 2 + 1, j)

\* str.lower()
StrLower(s) == LowerOf(s, 1, Len(s))

\* str.strip()
StrStrip(s) ==
    LET keep == {i \in 1..Len(s) : ~IsSpace(s[i])}
    IN  IF keep = {} THEN <<>> ELSE SubSeq(s, SetMin(keep), SetMax(keep))

\* str.replace(a, b) for single characters a, b
StrReplace(s, a, b) == [i \in 1..Len(s) |-> IF s[i] = a THEN b ELSE s[i]]

\* `sub in s`
StrContains(s, sub) ==
    \E i \in 0..(Len(s) - Len(sub)) : SubSeq(s, i + 1, i + Len(sub)) = sub

RECURSIVE NatDigits(_)
NatDigits(n) ==
    IF n < 10 THEN <<48 + n>> ELSE Append(NatDigits(n \div 10), 48 + (n % 10))

\* str(int)
IntStr(n) == IF n < 0 THEN <<45>> \o NatDigits(-n) ELSE NatDigits(n)

\* sys.get_int_max_str_digits(): the longest str that int() converts
IntMaxStrDigits == 4300

\* int(str) of a run of digits: the integer, or ValueError for a run of more
\* than IntMaxStrDigits digits
DigitsInt(d) ==
    LET RECURSIVE value(_)
        value(x) ==
            IF x = <<>> THEN 0
            ELSE 10 * value(SubSeq(x, 1, Len(x) - 1)) + DigitValue(x[Len(x)])
    IN  IF Len(d) > IntMaxStrDigits THEN Raise("ValueError")
        ELSE PyInt(value(d))

\* round(float): to nearest, exact halves to the even neighbour
PyRound(x10) ==
    LET q == x10 \div 10
        rem == x10 % 10
    IN  IF rem < 5 THEN q
        ELSE IF rem > 5 THEN q + 1
        ELSE IF q % 2 = 0 THEN q ELSE q + 1

\* int(float): truncation towards zero
PyTrunc(x10) == IF x10 >= 0 THEN x10 \div 10 ELSE -((-x10) \div 10)

\* str(v)
PyStrOf(v) ==
    CASE v.t = "str" -> v.s
      [] v.t = "none" -> <<78, 111, 110, 101>>
      [] v.t = "int" -> IntStr(v.n)
      [] v.t = "bool" -> IF v.b THEN <<84, 114, 117, 101>>
                         ELSE <<70, 97, 108, 115, 101>>
      [] v.t = "float" ->
           CASE v.k = "inf" -> <<105, 110, 102>>
             [] v.k = "ninf" -> <<45, 105, 110, 102>>
             [] v.k = "nan" -> <<110, 97, 110>>
             [] v.k = "nzero" -> <<45, 48, 46, 48>>
             [] OTHER ->
                  LET a == IF v.x10 < 0 THEN -v.x10 ELSE v.x10
                  IN  (IF v.x10 < 0 THEN <<45>> ELSE <<>>)
                      \o NatDigits(a \div 10) \o <<46, 48 + (a % 10)>>
      [] v.t = "other" -> v.s

-----------------------------------------------------------------------------
(* Parsing helpers *)

\* a slip: the Latin-1 range taken for ASCII
has_non_ascii_latin1(s) == \E i \in 1..Len(s) : s[i] > 255

has_non_ascii(s) == \E i \in 1..Len(s) : s[i] > 127

norm_text(v) ==
    IF v = None THEN None
    ELSE LET s == StrStrip(PyStrOf(v))
         IN  IF s # <<>> THEN PyStr(s) ELSE None

norm_model(v) == norm_text(v)

norm_blade(v) ==
    LET s == norm_text(v)
    IN  IF Truthy(s) THEN PyStr(StrUpper(s.s)) ELSE None

norm_style(v) ==
    LET s == norm_text(v)
    IN  IF Truthy(s) THEN PyStr(StrUpper(s.s)) ELSE None

\* re.match(r"^(.*?)\s*\(([^()]*)\)\s*$", s): the closing parenthesis is the
\* last non-space character, the opening one the last parenthesis before it,
\* group 1 the shortest prefix followed only by spaces, and `.` is no newline.
re_match_trailing_group(s) ==
    LET nonsp == {i \in 1..Len(s) : ~IsSpace(s[i])}
        e == IF nonsp = {} THEN 0 ELSE SetMax(nonsp)
        parens == {i \in 1..(e - 1) : s[i] \in {40, 41}}
        j == IF parens = {} THEN 0 ELSE SetMax(parens)
        before == {i \in 1..(j - 1) : ~IsSpace(s[i])}
        k == IF before = {} THEN 0 ELSE SetMax(before)
        ok == /\ e > 0 /\ s[e] = 41
              /\ j > 0 /\ s[j] = 40
              /\ \A i \in 1..k : s[i] # 10
    IN  IF ok THEN [ok |-> TRUE, g1 |-> SubSeq(s, 1, k),
                    g2 |-> SubSeq(s, j + 1, e - 1)]
        ELSE [ok |-> FALSE, g1 |-> <<>>, g2 |-> <<>>]

split_model_and_style(model_raw) ==
    LET s == norm_model(model_raw)
    IN  IF ~Truthy(s) THEN <<None, None>>
        ELSE LET s_norm == StrStrip(StrReplace(StrReplace(s.s, 65288, 40),
                                               65289, 41))
                 m == re_match_trailing_group(s_norm)
             IN  IF ~m.ok THEN <<PyStr(s_norm), None>>
                 ELSE LET b == StrStrip(m.g1)
                          st == StrStrip(m.g2)
                      IN  << PyStr(IF b # <<>> THEN b ELSE s_norm),
                             IF st # <<>> THEN PyStr(st) ELSE None >>

\* re.search(r"\d+", s): the first maximal run of digits, as m.group(0)
re_search_digits(s) ==
    LET ds == {i \in 1..Len(s) : IsDigit(s[i])}
    IN  IF ds = {} THEN [ok |-> FALSE, g0 |-> <<>>]
        ELSE LET i == SetMin(ds)
                 rest == {m \in i..Len(s) : ~IsDigit(s[m])}
                 j == IF rest = {} THEN Len(s) ELSE SetMin(rest) - 1
             IN  [ok |-> TRUE, g0 |-> SubSeq(s, i, j)]

parse_flex(v) ==
    CASE v = None -> None
      [] v.t = "int" -> PyInt(v.n)
      [] v.t = "bool" -> PyInt(IF v.b THEN 1 ELSE 0)
      [] v.t = "float" ->
           \* round(inf) raises OverflowError, round(nan) ValueError
           IF v.k \in {"fin", "nzero"} THEN PyInt(PyRound(v.x10))
           ELSE IF v.k = "nan" THEN Raise("ValueError")
           ELSE Raise("OverflowError")
      [] v.t = "str" ->
           LET m == re_search_digits(v.s)
           IN  IF m.ok THEN DigitsInt(m.g0) ELSE None
      [] OTHER -> None

parse_qty(v, excl) ==
    CASE v = None -> None
      [] v.t = "int" -> PyInt(v.n)
      [] v.t = "bool" -> PyInt(IF v.b THEN 1 ELSE 0)
      [] v.t = "float" ->
           IF v.k \in {"fin", "nzero"} /\ v.x10 % 10 = 0
           THEN PyInt(PyRound(v.x10))
           ELSE IF v.k = "fin" THEN PyInt(PyTrunc(v.x10))
           \* int(inf) raises OverflowError, int(nan) ValueError
           ELSE IF v.k = "nan" THEN Raise("ValueError")
           ELSE Raise("OverflowError")
      [] v.t = "str" ->
           LET s == StrStrip(v.s)
           IN  IF s = <<>> THEN None
               ELSE IF excl /\ has_non_ascii(s) THEN None
               ELSE LET m == re_search_digits(s)
                    IN  IF m.ok THEN DigitsInt(m.g0) ELSE None
      [] OTHER -> None

-----------------------------------------------------------------------------
(* Bounds and input alphabets *)

MaxStrLen == 3          \* longest str drawn as a cell value

\* space, "5", "a", "(", ")", full-width "(" and ")", no-break space, U+7455,
\* sharp s (upper-case "SS"), Arabic-Indic digit three
CellAlphabet == {32, 53, 97, 40, 41, 65288, 65289, 160, 29781, 223, 1635}

RECURSIVE StringsUpTo(_)
StringsUpTo(n) ==
    IF n = 0 THEN {<<>>}
    ELSE LET shorter == StringsUpTo(n - 1)
         IN  shorter \cup {Append(s, c) : s \in {x \in shorter : Len(x) = n - 1},
                                          c \in CellAlphabet}

CellStrings == StringsUpTo(MaxStrLen)

\* str(datetime.time(0, 0)) and str(datetime.date(2020, 1, 2))
OtherTexts ==
    { <<48, 48, 58, 48, 48, 58, 48, 48>>,
      <<50, 48, 50, 48, 45, 48, 49, 45, 48, 50>> }

\* a run of IntMaxStrDigits + 1 digits "1", then U+7455
LongDigitRun ==
    [i \in 1..(IntMaxStrDigits + 2) |->
        IF i <= IntMaxStrDigits + 1 THEN 49 ELSE 29781]

RawValues ==
    {None, PyBool(TRUE), PyBool(FALSE), PyInf, PyNegInf, PyNaN, PyNegZero,
     PyStr(LongDigitRun)}
    \cup {PyOther(s) : s \in OtherTexts}
    \cup {PyInt(n) : n \in {-3, 0, 5, 85}}
    \cup {PyFloat(x) : x \in {-25, -5, 5, 25, 35, 850, 854, 856}}
    \cup {PyStr(s) : s \in CellStrings}

-----------------------------------------------------------------------------
(* Values of the variables a specification does not use *)

NormIdle == fn = "" /\ arg = None /\ flag = FALSE /\ result = None

AggIdle ==
    /\ ws_a = None /\ defect_exclusion = FALSE /\ blk = 0 /\ r_a = 0
    /\ current_model_raw = None /\ current_blade_raw = None
    /\ summed = <<>> /\ row_key = <<>>

TplIdle ==
    /\ ws_in = None /\ ws = None /\ filldown_b_template = FALSE
    /\ last_row = 0 /\ r_b = 0
    /\ current_model = None /\ current_style = None /\ current_blade = None
    /\ work_key = <<>> /\ out_file = None
    /\ calls = 0 /\ inserted = 0

normVars == <<fn, arg, flag, result>>
aggVars == <<ws_a, defect_exclusion, blk, r_a, current_model_raw,
             current_blade_raw, summed, row_key>>
tplVars == <<ws_in, ws, filldown_b_template, last_row, r_b, current_model,
             current_style, current_blade, work_key, out_file, calls, inserted>>

-----------------------------------------------------------------------------
(* SpecNorm: one call of a parsing helper on a raw cell value *)

InitNorm ==
    /\ pc = "call"
    /\ fn = ""
    /\ arg \in RawValues
    /\ flag \in BOOLEAN
    /\ result = None
    /\ inv = <<>>
    /\ AggIdle /\ TplIdle

Return(f, v) ==
    /\ pc = "call"
    /\ fn' = f
    /\ result' = v
    /\ pc' = IF IsRaise(v) THEN "raised" ELSE "returned"
    /\ UNCHANGED <<arg, flag, inv, aggVars, tplVars>>

Call_norm_text == Return("norm_text", norm_text(arg))
Call_norm_blade == Return("norm_blade", norm_blade(arg))
Call_norm_style == Return("norm_style", norm_style(arg))
Call_split_model_and_style ==
    Return("split_model_and_style",
           [t |-> "tuple", v |-> split_model_and_style(arg)])
Call_parse_flex == Return("parse_flex", parse_flex(arg))
Call_parse_qty == Return("parse_qty", parse_qty(arg, flag))

NextNorm ==
    \/ Call_norm_text
    \/ Call_norm_blade
    \/ Call_norm_style
    \/ Call_split_model_and_style
    \/ Call_parse_flex
    \/ Call_parse_qty

SpecNorm == InitNorm /\ [][NextNorm]_vars

-----------------------------------------------------------------------------
(* Properties of the parsing helpers *)

OutsideAscii(s) == \E i \in 1..Len(s) : s[i] \notin 0..127

RECURSIVE Pow10(_)
Pow10(n) == IF n = 0 THEN 1 ELSE 10 * Pow10(n - 1)

RECURSIVE DecimalValue(_)
DecimalValue(d) ==
    IF d = <<>> THEN 0
    ELSE DigitValue(Head(d)) * Pow10(Len(d) - 1) + DecimalValue(Tail(d))

\* res is the integer of the first run of digits of s, absent if s has none
IsFirstDigitRunOf(s, res) ==
    IF \A i \in 1..Len(s) : ~IsDigit(s[i]) THEN res = None
    ELSE /\ res.t = "int"
         /\ \E i \in 1..Len(s) : \E j \in i..Len(s) :
            /\ \A x \in 1..(i - 1) : ~IsDigit(s[x])
            /\ \A x \in i..j : IsDigit(s[x])
            /\ j = Len(s) \/ ~IsDigit(s[j + 1])
            /\ res = PyInt(DecimalValue(SubSeq(s, i, j)))

QtyOfString == fn = "parse_qty" /\ arg.t = "str"

\* C7 to the letter: a string quantity cell holding any character outside
\* 7-bit ASCII, leading and trailing whitespace included, parses to absent
\* when defect exclusion is enabled; it parses to the integer of its first
\* digit run (absent if none) when exclusion is disabled; an all-ASCII string
\* parses the same under both settings.
C7_AnyNonAsciiExcluded ==
    QtyOfString =>
        /\ (flag /\ OutsideAscii(arg.s)) => result = None
        /\ (~flag /\ OutsideAscii(arg.s)) => IsFirstDigitRunOf(arg.s, result)
        /\ ~OutsideAscii(arg.s) => result = parse_qty(arg, ~flag)

\* C7: a string quantity cell that holds a character outside 7-bit ASCII
\* once its leading and trailing whitespace is stripped parses to absent
\* when defect exclusion is enabled; a string cell holding a character
\* outside 7-bit ASCII parses to the integer of its first digit run (absent
\* if none) when exclusion is disabled; an all-ASCII string parses the same
\* under both settings.
C7_DefectExclusion ==
    QtyOfString =>
        /\ (flag /\ OutsideAscii(StrStrip(arg.s))) => result = None
        /\ (~flag /\ OutsideAscii(arg.s)) => IsFirstDigitRunOf(arg.s, result)
        /\ ~OutsideAscii(arg.s) => result = parse_qty(arg, ~flag)

\* "5" followed by U+7455, exclusion enabled: excluded
C7_Witness ==
    /\ QtyOfString /\ flag
    /\ arg.s = <<53, 29781>>
    /\ result = None

\* C8: none of the parsing helpers raises, whatever the raw cell value.
C8_NeverRaises ==
    fn \in {"norm_text", "norm_blade", "norm_style", "split_model_and_style",
            "parse_flex", "parse_qty"} => ~IsRaise(result)

-----------------------------------------------------------------------------
(* Sheet A and the merged-cell helper *)

\* ws.cell(r, c).value: a cell the file does not hold is created empty
CellValue(sheet, r, c) ==
    IF <<r, c>> \in DOMAIN sheet.cells THEN sheet.cells[<<r, c>>] ELSE None

InRange(rng, r, c) ==
    /\ rng.min_row <= r /\ r <= rng.max_row
    /\ rng.min_col <= c /\ c <= rng.max_col

\* ws.merged_cells.ranges is walked in order; the first range holding the
\* cell decides
merged_top_left_value(sheet, r, c) ==
    LET hits == {i \in 1..Len(sheet.merged) : InRange(sheet.merged[i], r, c)}
    IN  IF hits # {}
        THEN LET rng == sheet.merged[SetMin(hits)]
             IN  CellValue(sheet, rng.min_row, rng.min_col)
        ELSE CellValue(sheet, r, c)

-----------------------------------------------------------------------------
(* build_inventory_from_a *)

FirstDataRowA == 5

blocks ==
    << [model_col |-> 2,  blade_col |-> 3,  flex_col |-> 4,
        left_col |-> 5,  right_col |-> 6],
       [model_col |-> 8,  blade_col |-> 9,  flex_col |-> 10,
        left_col |-> 11, right_col |-> 12],
       [model_col |-> 14, blade_col |-> 15, flex_col |-> 16,
        left_col |-> 17, right_col |-> 18] >>

\* the scan state threaded through the loops: the fill-down memory, the
\* defaultdict, the keys given so far (history) and whether a helper raised
ScanStart ==
    [cm |-> None, cb |-> None, summed |-> <<>>, keys |-> <<>>, raised |-> FALSE]

\* a slip: the memory of the previous block is kept
BlockMemoryCarried(st) == st

\* lines 220-221: the memory is reset at the top of a block
BlockMemory(st) == [st EXCEPT !.cm = None, !.cb = None]

\* a slip: the quantity replaces the running sum
AccumulateOverwrite(sm, key, side, q) ==
    IF q = None THEN sm
    ELSE IF key \in DOMAIN sm THEN [sm EXCEPT ![key][side] = q.n]
    ELSE sm @@ (key :> [[L |-> 0, R |-> 0] EXCEPT ![side] = q.n])

\* lines 250-253: summed[key][side] += q, the defaultdict creating {L:0, R:0}
Accumulate(sm, key, side, q) ==
    IF q = None THEN sm
    ELSE IF key \in DOMAIN sm THEN [sm EXCEPT ![key][side] = @ + q.n]
    ELSE sm @@ (key :> [[L |-> 0, R |-> 0] EXCEPT ![side] = q.n])

Skipped == <<"skipped">>

\* a slip: no fill-down, the row's own cells only
ScanRowNoFillDown(sheet, excl, b, r, st) ==
    LET bk == blocks[b]
        model_v == merged_top_left_value(sheet, r, bk.model_col)
        blade_v == merged_top_left_value(sheet, r, bk.blade_col)
        ms == split_model_and_style(model_v)
        style == norm_style(ms[2])
        blade == norm_blade(blade_v)
        flex == parse_flex(CellValue(sheet, r, bk.flex_col))
        L == parse_qty(CellValue(sheet, r, bk.left_col), excl)
        R == parse_qty(CellValue(sheet, r, bk.right_col), excl)
        key == <<ms[1], style, blade, flex>>
    IN  IF ms[1] = None \/ blade = None \/ flex = None
        THEN [st EXCEPT !.keys = @ @@ (<<b, r>> :> Skipped)]
        ELSE [st EXCEPT !.keys = @ @@ (<<b, r>> :> key),
                        !.summed = Accumulate(Accumulate(@, key, "L", L),
                                              key, "R", R)]

\* a slip: the first label of the block is kept, later labels do not replace it
ScanRowFirstLabel(sheet, excl, b, r, st) ==
    LET bk == blocks[b]
        model_v == merged_top_left_value(sheet, r, bk.model_col)
        blade_v == merged_top_left_value(sheet, r, bk.blade_col)
        flex_v == CellValue(sheet, r, bk.flex_col)
        left_v == CellValue(sheet, r, bk.left_col)
        right_v == CellValue(sheet, r, bk.right_col)
        cm == IF Truthy(norm_model(model_v)) /\ st.cm = None
              THEN model_v ELSE st.cm
        cb == IF Truthy(norm_blade(blade_v)) /\ st.cb = None
              THEN blade_v ELSE st.cb
        model_use == IF Truthy(norm_model(model_v)) THEN model_v ELSE cm
        blade_use == IF Truthy(norm_blade(blade_v)) THEN blade_v ELSE cb
        ms == split_model_and_style(model_use)
        model_base == ms[1]
        style == norm_style(ms[2])
        blade == norm_blade(blade_use)
        flex == parse_flex(flex_v)
        st1 == [st EXCEPT !.cm = cm, !.cb = cb]
    IN  IF IsRaise(flex) THEN [st1 EXCEPT !.raised = TRUE]
        ELSE IF model_base = None \/ blade = None \/ flex = None
        THEN [st1 EXCEPT !.keys = @ @@ (<<b, r>> :> Skipped)]
        ELSE LET L == parse_qty(left_v, excl)
                 R == parse_qty(right_v, excl)
                 key == <<model_base, style, blade, flex>>
             IN  IF IsRaise(L) \/ IsRaise(R) THEN [st1 EXCEPT !.raised = TRUE]
                 ELSE [st1 EXCEPT
                         !.keys = @ @@ (<<b, r>> :> key),
                         !.summed = Accumulate(Accumulate(@, key, "L", L),
                                               key, "R", R)]

\* lines 224-253: one pass of the row loop
ScanRow(sheet, excl, b, r, st) ==
    LET bk == blocks[b]
        model_v == merged_top_left_value(sheet, r, bk.model_col)
        blade_v == merged_top_left_value(sheet, r, bk.blade_col)
        flex_v == CellValue(sheet, r, bk.flex_col)
        left_v == CellValue(sheet, r, bk.left_col)
        right_v == CellValue(sheet, r, bk.right_col)
        cm == IF Truthy(norm_model(model_v)) THEN model_v ELSE st.cm
        cb == IF Truthy(norm_blade(blade_v)) THEN blade_v ELSE st.cb
        model_use == IF Truthy(norm_model(model_v)) THEN model_v ELSE cm
        blade_use == IF Truthy(norm_blade(blade_v)) THEN blade_v ELSE cb
        ms == split_model_and_style(model_use)
        model_base == ms[1]
        style == norm_style(ms[2])
        blade == norm_blade(blade_use)
        flex == parse_flex(flex_v)
        st1 == [st EXCEPT !.cm = cm, !.cb = cb]
    IN  IF IsRaise(flex) THEN [st1 EXCEPT !.raised = TRUE]
        ELSE IF model_base = None \/ blade = None \/ flex = None
        THEN [st1 EXCEPT !.keys = @ @@ (<<b, r>> :> Skipped)]
        ELSE LET L == parse_qty(left_v, excl)
                 R == parse_qty(right_v, excl)
                 key == <<model_base, style, blade, flex>>
             IN  IF IsRaise(L) \/ IsRaise(R) THEN [st1 EXCEPT !.raised = TRUE]
                 ELSE [st1 EXCEPT
                         !.keys = @ @@ (<<b, r>> :> key),
                         !.summed = Accumulate(Accumulate(@, key, "L", L),
                                               key, "R", R)]

\* a slip: >= for >, a sum of 0 is stored as 0
CollapseKeepZero(sm) ==
    [k \in DOMAIN sm |->
        << IF sm[k].L >= 0 THEN PyInt(sm[k].L) ELSE None,
           IF sm[k].R >= 0 THEN PyInt(sm[k].R) ELSE None >>]

\* lines 255-259: a sum that is not positive becomes None
Collapse(sm) ==
    [k \in DOMAIN sm |->
        << IF sm[k].L > 0 THEN PyInt(sm[k].L) ELSE None,
           IF sm[k].R > 0 THEN PyInt(sm[k].R) ELSE None >>]

\* the row loop of one block from row r on
RECURSIVE ScanRowsFrom(_, _, _, _, _)
ScanRowsFrom(sheet, excl, b, r, st) ==
    IF st.raised \/ r > sheet.max_row THEN st
    ELSE ScanRowsFrom(sheet, excl, b, r + 1, ScanRow(sheet, excl, b, r, st))

\* the block loop from block b on
RECURSIVE ScanBlocksFrom(_, _, _, _)
ScanBlocksFrom(sheet, excl, b, st) ==
    IF st.raised \/ b > Len(blocks) THEN st
    ELSE ScanBlocksFrom(sheet, excl, b + 1,
            ScanRowsFrom(sheet, excl, b, FirstDataRowA, BlockMemory(st)))

\* the whole function: the returned map, or the exception
build_inventory_from_a(sheet, excl) ==
    LET st == ScanBlocksFrom(sheet, excl, 1, ScanStart)
    IN  IF st.raised THEN Raise("error") ELSE Collapse(st.summed)

-----------------------------------------------------------------------------
(* Sheets A drawn as input *)

MaxRowsA == 3           \* data rows of sheet A (rows 5 .. 4 + MaxRowsA)

\* the rows a block may hold, as <<Model, Blade, Flex, Left, Right>>:
\*   RowLabelled   "X(a)", "p", 85, 2, None
\*   RowRelabelled "X (A)", " P", 85.0, 4, 7    (the same key, written otherwise)
\*   RowFillDown   None, None, "85", -2, 1       (labels from the rows above)
\*   RowDefect     "Y", "q", 85, "5" + U+7455, 3 (a defect note on Left)
\*   RowNoFlex     "Z", None, None, 6, 6         (a new model, no flex)
\*   RowEmpty      None, None, None, None, None  (below the end of a block)
RowLabelled ==
    << PyStr(<<88, 40, 97, 41>>), PyStr(<<112>>), PyInt(85), PyInt(2), None >>
RowRelabelled ==
    << PyStr(<<88, 32, 40, 65, 41>>), PyStr(<<32, 80>>), PyFloat(850),
       PyInt(4), PyInt(7) >>
RowFillDown ==
    << None, None, PyStr(<<56, 53>>), PyInt(-2), PyInt(1) >>
RowDefect ==
    << PyStr(<<89>>), PyStr(<<113>>), PyInt(85), PyStr(<<53, 29781>>), PyInt(3) >>
RowNoFlex ==
    << PyStr(<<90>>), None, None, PyInt(6), PyInt(6) >>
RowEmpty ==
    << None, None, None, None, None >>

RowKindsA ==
    {RowLabelled, RowRelabelled, RowFillDown, RowDefect, RowNoFlex, RowEmpty}

\* each block is drawn from some of the kinds, to keep the sheets few
RowKindsOfBlock(b) ==
    CASE b = 1 -> {RowLabelled, RowFillDown, RowDefect, RowNoFlex}
      [] b = 2 -> {RowRelabelled, RowFillDown, RowDefect}
      [] OTHER -> {RowFillDown, RowDefect}

DataRowsA == FirstDataRowA..(FirstDataRowA + MaxRowsA - 1)
SlotsA == (1..Len(blocks)) \X DataRowsA

\* F5:H5, from the Right column of block 1 into the Model column of block 2
MergedChoicesA ==
    { <<>>,
      << [min_row |-> 5, max_row |-> 5, min_col |-> 6, max_col |-> 8] >> }

BlockCols(b) ==
    << blocks[b].model_col, blocks[b].blade_col, blocks[b].flex_col,
       blocks[b].left_col, blocks[b].right_col >>

\* openpyxl keeps the value of a merged range in its top-left cell only
CleanMerged(cells, merged) ==
    [p \in DOMAIN cells |->
        IF \E i \in 1..Len(merged) :
              /\ InRange(merged[i], p[1], p[2])
              /\ p # <<merged[i].min_row, merged[i].min_col>>
        THEN None ELSE cells[p]]

\* the sheet whose block b, row r holds the five cells rows[<<b, r>>]
MakeSheetA(rows, merged) ==
    LET cells == [p \in {<<r, BlockCols(b)[f]>> :
                            r \in DataRowsA, b \in 1..Len(blocks), f \in 1..5} |->
                    LET b == CHOOSE x \in 1..Len(blocks) :
                                 \E f \in 1..5 : BlockCols(x)[f] = p[2]
                        f == CHOOSE y \in 1..5 : BlockCols(b)[y] = p[2]
                    IN  rows[<<b, p[1]>>][f]]
    IN  [cells |-> CleanMerged(cells, merged), merged |-> merged,
         max_row |-> FirstDataRowA + MaxRowsA - 1]

\* a sheet with its header rows only
EmptySheetA == [cells |-> <<>>, merged |-> <<>>, max_row |-> FirstDataRowA - 1]

\* block 1 is the long one: blocks 2 and 3 hold data in their first two rows
RowsOfBlock(b) ==
    IF b = 1 THEN DataRowsA
    ELSE DataRowsA \cap (FirstDataRowA..(FirstDataRowA + 1))

\* the rows of the three blocks put together, empty below the end of a block
RowsOfSheet(fs) ==
    [sl \in SlotsA |-> IF sl[2] \in DOMAIN fs[sl[1]] THEN fs[sl[1]][sl[2]]
                       ELSE RowEmpty]

SheetsA ==
    {MakeSheetA(RowsOfSheet(<<f1, f2, f3>>), m) :
        f1 \in [RowsOfBlock(1) -> RowKindsOfBlock(1)],
        f2 \in [RowsOfBlock(2) -> RowKindsOfBlock(2)],
        f3 \in [RowsOfBlock(3) -> RowKindsOfBlock(3)],
        m \in MergedChoicesA}
    \cup {EmptySheetA}

-----------------------------------------------------------------------------
(* SpecAgg: build_inventory_from_a, one step per pass of its loops *)

InitAgg ==
    /\ pc = "block"
    /\ ws_a \in SheetsA
    /\ defect_exclusion \in BOOLEAN
    /\ blk = 1
    /\ r_a = FirstDataRowA
    /\ current_model_raw = ScanStart.cm
    /\ current_blade_raw = ScanStart.cb
    /\ summed = ScanStart.summed
    /\ row_key = ScanStart.keys
    /\ inv = <<>>
    /\ NormIdle /\ TplIdle

ScanState ==
    [cm |-> current_model_raw, cb |-> current_blade_raw, summed |-> summed,
     keys |-> row_key, raised |-> FALSE]

\* lines 219-223: enter the next block
BeginBlock ==
    /\ pc = "block"
    /\ blk <= Len(blocks)
    /\ LET st == BlockMemory(ScanState)
       IN  /\ current_model_raw' = st.cm
           /\ current_blade_raw' = st.cb
    /\ r_a' = FirstDataRowA
    /\ IF FirstDataRowA > ws_a.max_row
       THEN pc' = "block" /\ blk' = blk + 1
       ELSE pc' = "row" /\ blk' = blk
    /\ UNCHANGED <<ws_a, defect_exclusion, summed, row_key, inv,
                   normVars, tplVars>>

\* lines 224-253: scan row r_a of block blk
ScanRowA ==
    /\ pc = "row"
    /\ LET st == ScanRow(ws_a, defect_exclusion, blk, r_a, ScanState)
       IN  /\ current_model_raw' = st.cm
           /\ current_blade_raw' = st.cb
           /\ summed' = st.summed
           /\ row_key' = st.keys
           /\ IF st.raised
              THEN pc' = "raised" /\ UNCHANGED <<blk, r_a>>
              ELSE IF r_a < ws_a.max_row
              THEN pc' = "row" /\ r_a' = r_a + 1 /\ blk' = blk
              ELSE pc' = "block" /\ blk' = blk + 1 /\ r_a' = r_a
    /\ UNCHANGED <<ws_a, defect_exclusion, inv, normVars, tplVars>>

\* lines 255-261: convert the sums and return the map
FinishA ==
    /\ pc = "block"
    /\ blk > Len(blocks)
    /\ inv' = Collapse(summed)
    /\ pc' = "done"
    /\ UNCHANGED <<ws_a, defect_exclusion, blk, r_a, current_model_raw,
                   current_blade_raw, summed, row_key, normVars, tplVars>>

NextAgg == BeginBlock \/ ScanRowA \/ FinishA

SpecAgg == InitAgg /\ [][NextAgg]_vars

-----------------------------------------------------------------------------
(* Properties of build_inventory_from_a *)

ScannedSlots == {<<b, r>> : b \in 1..Len(blocks),
                            r \in FirstDataRowA..ws_a.max_row}

\* the quantity a slot adds to a side: 0 when the cell parses to absent
Contribution(sheet, excl, sl, side) ==
    LET c == IF side = "L" THEN blocks[sl[1]].left_col
             ELSE blocks[sl[1]].right_col
        q == parse_qty(CellValue(sheet, sl[2], c), excl)
    IN  IF q = None THEN 0 ELSE q.n

HasQuantity(sheet, excl, sl, side) ==
    LET c == IF side = "L" THEN blocks[sl[1]].left_col
             ELSE blocks[sl[1]].right_col
    IN  parse_qty(CellValue(sheet, sl[2], c), excl) # None

RECURSIVE SumContributions(_, _, _, _)
SumContributions(sheet, excl, S, side) ==
    IF S = {} THEN 0
    ELSE LET sl == CHOOSE x \in S : TRUE
         IN  Contribution(sheet, excl, sl, side)
             + SumContributions(sheet, excl, S \ {sl}, side)

\* the slots the scan keyed by k
SlotsKeyed(k) == {sl \in DOMAIN row_key : row_key[sl] = k}

SideIndex(side) == IF side = "L" THEN 1 ELSE 2

\* C4 (zero-collapse): for every key of the returned map and each side, the
\* stored component is blank when the non-excluded contributions to that side
\* sum to 0 (also when there are none), is the integer sum when the sum is
\* positive, and is never the integer 0.
C4_ZeroCollapse ==
    pc = "done" =>
        \A k \in DOMAIN inv : \A side \in {"L", "R"} :
            LET total == SumContributions(ws_a, defect_exclusion,
                                          SlotsKeyed(k), side)
                stored == inv[k][SideIndex(side)]
            IN  /\ total = 0 => stored = None
                /\ total > 0 => stored = PyInt(total)
                /\ stored # PyInt(0)

\* a key whose Left contributions (2 and -2) cancel, and whose Right has a sum
C4_Witness ==
    /\ pc = "done"
    /\ \E k \in DOMAIN inv :
          /\ \E sl \in SlotsKeyed(k) :
                HasQuantity(ws_a, defect_exclusion, sl, "L")
          /\ SumContributions(ws_a, defect_exclusion, SlotsKeyed(k), "L") = 0
          /\ inv[k][1] = None
          /\ inv[k][2] # None

\* the label in force at row r of a column: the merged-resolved value of the
\* nearest row at or above r, in the block, whose value is not absent
LabelAbove(sheet, col, r) ==
    LET rows == {q \in FirstDataRowA..r :
                    norm_text(merged_top_left_value(sheet, q, col)) # None}
    IN  IF rows = {} THEN None
        ELSE merged_top_left_value(sheet, SetMax(rows), col)

\* the key C5 gives to a slot, Skipped when model, blade or flex is absent
KeyByFillDown(sheet, sl) ==
    LET bk == blocks[sl[1]]
        ms == split_model_and_style(LabelAbove(sheet, bk.model_col, sl[2]))
        blade == norm_blade(LabelAbove(sheet, bk.blade_col, sl[2]))
        flex == parse_flex(CellValue(sheet, sl[2], bk.flex_col))
    IN  IF ms[1] = None \/ blade = None \/ flex = None THEN Skipped
        ELSE <<ms[1], norm_style(ms[2]), blade, flex>>

\* the table of the keys C5 gives to the slots S
RECURSIVE KeysByFillDown(_, _)
KeysByFillDown(sheet, S) ==
    IF S = {} THEN <<>>
    ELSE LET sl == CHOOSE x \in S : TRUE
         IN  (sl :> KeyByFillDown(sheet, sl)) @@ KeysByFillDown(sheet, S \ {sl})

\* C5 (fill-down and summation): every row is keyed by the most recent
\* non-absent merged-resolved model / blade at or above it in its block, base
\* model and style split from the model text; a row with absent model, blade
\* or flex adds nothing at all; the keys of the map are the keys of the rows
\* that have a present quantity; per key each side's total is the sum of the
\* present quantities of the rows with that key, a row with an absent quantity
\* adding nothing to that side; the returned map holds that total where it is
\* positive and blank otherwise.
C5_FillDownAndSum ==
    pc = "done" =>
        LET keyOf == KeysByFillDown(ws_a, ScannedSlots)
            keyed == {keyOf[sl] : sl \in ScannedSlots} \ {Skipped}
            same == [k \in keyed |-> {x \in ScannedSlots : keyOf[x] = k}]
            present == [k \in keyed |-> [side \in {"L", "R"} |->
                \E x \in same[k] :
                    HasQuantity(ws_a, defect_exclusion, x, side)]]
            total == [k \in keyed |-> [side \in {"L", "R"} |->
                SumContributions(ws_a, defect_exclusion, same[k], side)]]
        IN  /\ \A sl \in ScannedSlots : row_key[sl] = keyOf[sl]
            /\ DOMAIN summed = {k \in keyed : present[k].L \/ present[k].R}
            /\ \A k \in DOMAIN summed : \A side \in {"L", "R"} :
                  summed[k][side] = total[k][side]
            /\ DOMAIN inv = DOMAIN summed
            /\ \A k \in DOMAIN inv : \A side \in {"L", "R"} :
                  inv[k][SideIndex(side)] =
                     IF total[k][side] > 0 THEN PyInt(total[k][side])
                     ELSE None

\* block 1 holds ("X(a)", "p", 85, 2, none), ("Z", absent, absent, 6, 6) and
\* (absent, absent, "85", -2, 1); block 2 ("X (A)", " P", 85.0, 4, 7) and
\* (absent, absent, "85", -2, 1). The second row of block 1 has no flex and
\* adds nothing; the third takes the model of the second, not of the first,
\* and the blade of the first: ("Z", none, "P", 85) -> (none, 1). The three
\* other rows have one key: ("X", "A", "P", 85) -> (2 + 4 - 2, 7 + 1).
C5_Witness ==
    /\ pc = "done"
    /\ ws_a.merged = <<>>
    /\ \A f \in 1..5 :
          /\ CellValue(ws_a, 5, BlockCols(1)[f]) = RowLabelled[f]
          /\ CellValue(ws_a, 6, BlockCols(1)[f]) = RowNoFlex[f]
          /\ CellValue(ws_a, 7, BlockCols(1)[f]) = RowFillDown[f]
          /\ CellValue(ws_a, 5, BlockCols(2)[f]) = RowRelabelled[f]
          /\ CellValue(ws_a, 6, BlockCols(2)[f]) = RowFillDown[f]
    /\ LET kx == <<PyStr(<<88>>), PyStr(<<65>>), PyStr(<<80>>), PyInt(85)>>
           kz == <<PyStr(<<90>>), None, PyStr(<<80>>), PyInt(85)>>
       IN  /\ row_key[<<1, 5>>] = kx
           /\ row_key[<<1, 6>>] = Skipped
           /\ row_key[<<1, 7>>] = kz
           /\ row_key[<<2, 6>>] = kx
           /\ kx \in DOMAIN inv /\ kz \in DOMAIN inv
           /\ inv[kx] = <<PyInt(4), PyInt(8)>>
           /\ inv[kz] = <<None, PyInt(1)>>

\* the columns of block b
ColsOfBlock(b) == {BlockCols(b)[f] : f \in 1..5}

\* the top-left cells of the merged ranges that cover a model or blade cell
\* of block b
AnchorsOfBlock(sheet, b) ==
    {<<sheet.merged[i].min_row, sheet.merged[i].min_col>> :
        i \in {x \in 1..Len(sheet.merged) :
                 \E r \in FirstDataRowA..sheet.max_row :
                    \/ InRange(sheet.merged[x], r, blocks[b].model_col)
                    \/ InRange(sheet.merged[x], r, blocks[b].blade_col)}}

\* the sheet with every cell blanked but those at the positions `keep`
BlankedExcept(sheet, keep) ==
    [sheet EXCEPT !.cells = [p \in DOMAIN sheet.cells |->
                                IF p \in keep THEN sheet.cells[p] ELSE None]]

OwnCells(sheet, b) == {p \in DOMAIN sheet.cells : p[2] \in ColsOfBlock(b)}

\* the keys a scan of block b alone, its memory starting absent, gives its rows
KeysOfBlockAlone(sheet, excl, b) ==
    ScanRowsFrom(sheet, excl, b, FirstDataRowA, ScanStart).keys

KeysGiven(b) == [sl \in {x \in DOMAIN row_key : x[1] = b} |-> row_key[sl]]

\* C10 as stated: the fill-down memory is absent at the top of each block, and
\* the key of every row of a block depends only on the cells in that block's
\* own columns (blanking every other cell changes no key of the block).
C10_OwnColumnsOnly ==
    /\ (pc = "row" /\ r_a = FirstDataRowA) =>
          (current_model_raw = None /\ current_blade_raw = None)
    /\ pc = "done" =>
          \A b \in 1..Len(blocks) :
             KeysGiven(b) =
                KeysOfBlockAlone(BlankedExcept(ws_a, OwnCells(ws_a, b)),
                                 defect_exclusion, b)

\* C10 amended: the memory is absent at the top of each block, and the key of
\* every row of a block depends only on the cells in the block's own columns
\* and on the top-left cells of the merged ranges covering its model or blade
\* cells.
C10_BlockIndependence ==
    /\ (pc = "row" /\ r_a = FirstDataRowA) =>
          (current_model_raw = None /\ current_blade_raw = None)
    /\ pc = "done" =>
          \A b \in 1..Len(blocks) :
             KeysGiven(b) =
                KeysOfBlockAlone(
                    BlankedExcept(ws_a, OwnCells(ws_a, b)
                                        \cup AnchorsOfBlock(ws_a, b)),
                    defect_exclusion, b)

\* block 1 ends on labels, block 2 opens with a fill-down row, which is
\* skipped: nothing came over from block 1
C10_Witness ==
    /\ pc = "done"
    /\ ws_a.max_row >= FirstDataRowA
    /\ row_key[<<1, ws_a.max_row>>] # Skipped
    /\ CellValue(ws_a, FirstDataRowA, blocks[2].model_col) = None
    /\ CellValue(ws_a, FirstDataRowA, blocks[2].flex_col) # None
    /\ row_key[<<2, FirstDataRowA>>] = Skipped

\* the five cells of two slots exchanged
SwapSlots(sheet, s1, s2) ==
    LET other(p) ==
          IF \E f \in 1..5 : p = <<s1[2], BlockCols(s1[1])[f]>>
          THEN LET f == CHOOSE y \in 1..5 : p = <<s1[2], BlockCols(s1[1])[y]>>
               IN  <<s2[2], BlockCols(s2[1])[f]>>
          ELSE IF \E f \in 1..5 : p = <<s2[2], BlockCols(s2[1])[f]>>
          THEN LET f == CHOOSE y \in 1..5 : p = <<s2[2], BlockCols(s2[1])[y]>>
               IN  <<s1[2], BlockCols(s1[1])[f]>>
          ELSE p
    IN  [sheet EXCEPT !.cells = [p \in DOMAIN sheet.cells |->
                                    sheet.cells[other(p)]]]

\* every row with a flex value carries its own model and blade
OwnLabels(sheet) ==
    \A b \in 1..Len(blocks) : \A r \in FirstDataRowA..sheet.max_row :
        parse_flex(CellValue(sheet, r, blocks[b].flex_col)) # None =>
            /\ norm_model(CellValue(sheet, r, blocks[b].model_col)) # None
            /\ norm_blade(CellValue(sheet, r, blocks[b].blade_col)) # None

\* C3 as stated: exchanging any two rows, within a block or between blocks,
\* leaves the returned map the same (checked on the sheets without merged
\* ranges; the exchanges of two rows generate every permutation).
C3_AnyPermutation ==
    (pc = "done" /\ ws_a.merged = <<>>) =>
        \A s1 \in ScannedSlots : \A s2 \in ScannedSlots :
            build_inventory_from_a(SwapSlots(ws_a, s1, s2), defect_exclusion)
                = inv

\* C3 amended: on a sheet without merged ranges in which every row with a flex
\* value carries its own model and blade, exchanging any two rows leaves the
\* returned map the same.
C3_OrderIndependence ==
    (pc = "done" /\ ws_a.merged = <<>> /\ OwnLabels(ws_a)) =>
        \A s1 \in ScannedSlots : \A s2 \in ScannedSlots :
            build_inventory_from_a(SwapSlots(ws_a, s1, s2), defect_exclusion)
                = inv

\* two rows of different keys, in different blocks, both adding to the map
C3_Witness ==
    /\ pc = "done" /\ ws_a.merged = <<>> /\ OwnLabels(ws_a)
    /\ \E s1 \in ScannedSlots : \E s2 \in ScannedSlots :
          /\ s1[1] # s2[1]
          /\ row_key[s1] # row_key[s2]
          /\ row_key[s1] \in DOMAIN inv /\ row_key[s2] \in DOMAIN inv
          /\ SwapSlots(ws_a, s1, s2) # ws_a

-----------------------------------------------------------------------------
(* Sheet B (the template): cells holds the values, fmt the formatting        *)
(* (font, fill, border, alignment, number format, protection) of each cell,  *)
(* width the column_dimensions.                                              *)

SetValue(sheet, r, c, v) ==
    [sheet EXCEPT !.cells = IF <<r, c>> \in DOMAIN @
                            THEN [@ EXCEPT ![<<r, c>>] = v]
                            ELSE @ @@ (<<r, c>> :> v)]

DefaultFormat == "General"

CellFormat(sheet, r, c) ==
    IF <<r, c>> \in DOMAIN sheet.fmt THEN sheet.fmt[<<r, c>>] ELSE DefaultFormat

\* "style", "color", "Style/Color"
StrStyle == <<115, 116, 121, 108, 101>>
StrColor == <<99, 111, 108, 111, 114>>
StrStyleColor == <<83, 116, 121, 108, 101, 47, 67, 111, 108, 111, 114>>

\* lines 169-174: column C already looks like style/color
LooksLikeStyleCaseSensitive(sheet) ==
    LET header_c == CellValue(sheet, 1, 3)
        header_c_s == IF header_c # None THEN StrStrip(PyStrOf(header_c))
                      ELSE <<>>
    IN  StrContains(header_c_s, StrStyle) \/ StrContains(header_c_s, StrColor)

LooksLikeStyle(sheet) ==
    LET header_c == CellValue(sheet, 1, 3)
        header_c_s == IF header_c # None
                      THEN StrLower(StrStrip(PyStrOf(header_c)))
                      ELSE <<>>
    IN  StrContains(header_c_s, StrStyle) \/ StrContains(header_c_s, StrColor)

\* ws.insert_cols(3): the cells from column 3 on move one column right, with
\* their formatting; column_dimensions is left as it is
InsertCols3(sheet) ==
    LET moved == {<<p[1], IF p[2] >= 3 THEN p[2] + 1 ELSE p[2]>> :
                     p \in DOMAIN sheet.cells}
        from(p) == IF p[2] >= 3 THEN <<p[1], p[2] - 1>> ELSE p
    IN  [sheet EXCEPT !.cells = [p \in moved |-> sheet.cells[from(p)]],
                      !.fmt = [p \in moved |-> sheet.fmt[from(p)]]]

\* lines 176-197: insert the column, label it, copy column B's formatting
InsertStyleColumn(sheet) ==
    LET old_c_width == sheet.width[3]
        s1 == SetValue(InsertCols3(sheet), 1, 3, PyStr(StrStyleColor))
        newC == {<<r, 3>> : r \in 1..s1.max_row}
        s2 == [s1 EXCEPT
                 !.cells = [p \in DOMAIN s1.cells \cup newC |->
                              CellValue(s1, p[1], p[2])],
                 !.fmt = [p \in DOMAIN s1.fmt \cup newC |->
                            IF p[2] = 3 THEN CellFormat(s1, p[1], 2)
                            ELSE CellFormat(s1, p[1], p[2])]]
    IN  IF old_c_width # None
        THEN [s2 EXCEPT !.width = [@ EXCEPT ![3] = old_c_width]]
        ELSE s2

ensure_style_column(sheet) ==
    IF LooksLikeStyle(sheet) THEN sheet ELSE InsertStyleColumn(sheet)

-----------------------------------------------------------------------------
(* apply_to_b_template *)

COL_MODEL == 2
COL_STYLE == 3
COL_BLADE == 4
COL_FLEX == 5
COL_LEFT == 6
COL_RIGHT == 7

FirstDataRowB == 2

\* v not in (None, "")
NotBlank(v) == v # None /\ v # PyStr(<<>>)

row_has_any(sheet, r) ==
    \E c \in {COL_MODEL, COL_STYLE, COL_BLADE, COL_FLEX, COL_LEFT, COL_RIGHT} :
        NotBlank(CellValue(sheet, r, c))

\* lines 295-297: the last row holding a value in one of the six columns
LastRow(sheet) ==
    LET rows == {r \in 2..sheet.max_row : row_has_any(sheet, r)}
    IN  IF rows = {} THEN 1 ELSE SetMax(rows)

\* a slip: the clear pass left out
ClearNothing(sheet, last) == sheet

\* lines 300-302: Left and Right of every row up to the last are blanked
ClearQuantities(sheet, last) ==
    [sheet EXCEPT !.cells =
        [p \in DOMAIN sheet.cells
               \cup {<<r, c>> : r \in 2..last, c \in {COL_LEFT, COL_RIGHT}} |->
            IF p[1] \in 2..last /\ p[2] \in {COL_LEFT, COL_RIGHT} THEN None
            ELSE sheet.cells[p]]]

\* a slip: Left and Right exchanged
LookupSwapped(invmap, key) ==
    IF key \in DOMAIN invmap THEN <<invmap[key][2], invmap[key][1]>>
    ELSE <<None, None>>

\* line 356: inv.get(key, (None, None))
Lookup(invmap, key) ==
    IF key \in DOMAIN invmap THEN invmap[key] ELSE <<None, None>>

\* a or b on Optional[str]
PyOr(a, b) == IF Truthy(a) THEN a ELSE b

\* the cell is None or str(value).strip() == ""
BlankCell(v) == v = None \/ StrStrip(PyStrOf(v)) = <<>>

\* a slip: the running style outlives a change of model
StyleAfterModelChangeKept(base_model_here, style_here, cur_model, cur_style) ==
    cur_style

\* lines 327-329: a new model on a row without a style resets the running style
StyleAfterModelChange(base_model_here, style_here, cur_model, cur_style) ==
    LET model_changed == base_model_here # None /\ base_model_here # cur_model
    IN  IF model_changed /\ ~Truthy(style_here) THEN None ELSE cur_style

\* lines 317-320: what the cells of row r supply, given the split Model cell
ReadCells(ms, sheet, r) ==
    [base_model_here |-> ms[1],
     style_from_model |-> ms[2],
     style_here |-> PyOr(norm_style(CellValue(sheet, r, COL_STYLE)),
                         norm_style(ms[2])),
     blade_here |-> norm_blade(CellValue(sheet, r, COL_BLADE)),
     flex |-> parse_flex(CellValue(sheet, r, COL_FLEX))]

ReadRowB(sheet, r) ==
    ReadCells(split_model_and_style(CellValue(sheet, r, COL_MODEL)), sheet, r)

\* lines 327-337: the running values after a row that supplies rd
TrackRow(rd, st) ==
    [st EXCEPT
        !.current_model = IF Truthy(rd.base_model_here)
                          THEN rd.base_model_here ELSE @,
        !.current_style = IF Truthy(rd.style_here) THEN rd.style_here
                          ELSE StyleAfterModelChange(rd.base_model_here,
                                   rd.style_here, st.current_model, @),
        !.current_blade = IF Truthy(rd.blade_here) THEN rd.blade_here ELSE @]

\* a slip: the running values are used whatever the fill-down option
KeyOfFilled(rd, st1, filldown) ==
    << PyOr(rd.base_model_here, st1.current_model),
       PyOr(rd.style_here, st1.current_style),
       PyOr(rd.blade_here, st1.current_blade),
       rd.flex >>

\* lines 340-342 and 355: the working key, st1 holding the running values
\* updated for the row
KeyOf(rd, st1, filldown) ==
    << PyOr(rd.base_model_here,
            IF filldown THEN st1.current_model ELSE None),
       PyOr(rd.style_here, IF filldown THEN st1.current_style ELSE None),
       PyOr(rd.blade_here, IF filldown THEN st1.current_blade ELSE None),
       rd.flex >>

\* lines 323-324: a Model cell with a parenthetical is rewritten to its base
RewriteModel(sheet, r, rd) ==
    IF Truthy(rd.base_model_here) /\ Truthy(rd.style_from_model)
    THEN SetValue(sheet, r, COL_MODEL, rd.base_model_here)
    ELSE sheet

\* lines 344-350: a blank cell is filled with the working value
FillCell(sheet, r, c, v, filldown) ==
    IF filldown /\ BlankCell(CellValue(sheet, r, c)) /\ Truthy(v)
    THEN SetValue(sheet, r, c, v)
    ELSE sheet

\* lines 352-359: Left and Right of a row with a complete key
WriteQuantities(sheet, r, key, found) ==
    IF key[1] = None \/ key[3] = None \/ key[4] = None THEN sheet
    ELSE SetValue(SetValue(sheet, r, COL_LEFT, found[1]),
                  r, COL_RIGHT, found[2])

\* lines 323-359 for a row whose key is known
WriteRowB(invmap, filldown, r, rd, key, st1) ==
    [st1 EXCEPT
        !.ws = WriteQuantities(
                   FillCell(
                       FillCell(
                           FillCell(RewriteModel(@, r, rd),
                                    r, COL_MODEL, key[1], filldown),
                           r, COL_STYLE, key[2], filldown),
                       r, COL_BLADE, key[3], filldown),
                   r, key, Lookup(invmap, key)),
        !.keys = @ @@ (r :> key)]

\* lines 321-359 for a row that supplies rd
ReconcileWith(invmap, filldown, r, rd, st1) ==
    WriteRowB(invmap, filldown, r, rd, KeyOf(rd, st1, filldown), st1)

\* lines 309-359: one pass of the reconciliation loop on row r; st holds the
\* sheet, the running values, the working keys so far and whether a helper
\* raised
ScanRowB(invmap, filldown, r, st) ==
    IF IsRaise(parse_flex(CellValue(st.ws, r, COL_FLEX)))
    THEN [st EXCEPT !.raised = TRUE]
    ELSE ReconcileWith(invmap, filldown, r, ReadRowB(st.ws, r),
                       TrackRow(ReadRowB(st.ws, r), st))

\* the whole loop from row r on
RECURSIVE ScanRowsBFrom(_, _, _, _, _)
ScanRowsBFrom(invmap, filldown, r, last, st) ==
    IF st.raised \/ r > last THEN st
    ELSE ScanRowsBFrom(invmap, filldown, r + 1, last,
                       ScanRowB(invmap, filldown, r, st))

\* the sheet apply_to_b_template saves, or the exception
apply_to_b_template(sheet, invmap, filldown) ==
    LET s1 == ensure_style_column(sheet)
        last == LastRow(s1)
        st == ScanRowsBFrom(invmap, filldown, FirstDataRowB, last,
                [ws |-> ClearQuantities(s1, last), current_model |-> None,
                 current_style |-> None, current_blade |-> None,
                 keys |-> <<>>, raised |-> FALSE])
    IN  IF st.raised THEN Raise("error") ELSE st.ws

-----------------------------------------------------------------------------
(* Templates and inventory maps drawn as input *)

MaxRowsB == 3           \* data rows of the template (rows 2 .. 1 + MaxRowsB)
MaxCalls == 2           \* calls of ensure_style_column in a row

\* the rows of a template, as <<Model, Style, Blade, Flex, Left, Right>>
\* (a template without the Style/Color column holds no Style cell):
\*   "X", "a", "p", 85, 9, 9
\*   None, None, "q", 85, None, 9
\*   "Y", None, "q", "85", 9, None
\*   "X(a)", None, None, 85, 9, 9
\*   "\uff08a\uff09", None, "p", 85, 9, 9   (full-width parentheses)
\*   a row of empty cells
RowKindsB ==
    { << PyStr(<<88>>), PyStr(<<97>>), PyStr(<<112>>), PyInt(85),
         PyInt(9), PyInt(9) >>,
      << None, None, PyStr(<<113>>), PyInt(85), None, PyInt(9) >>,
      << PyStr(<<89>>), None, PyStr(<<113>>), PyStr(<<56, 53>>),
         PyInt(9), None >>,
      << PyStr(<<88, 40, 97, 41>>), None, None, PyInt(85), PyInt(9), PyInt(9) >>,
      << PyStr(<<65288, 97, 65289>>), None, PyStr(<<112>>), PyInt(85),
         PyInt(9), PyInt(9) >>,
      << None, None, None, None, None, None >> }

\* "Model", "Blade", "Flex", "Left", "Right", " COLOR"
HdrModel == PyStr(<<77, 111, 100, 101, 108>>)
HdrBlade == PyStr(<<66, 108, 97, 100, 101>>)
HdrFlex == PyStr(<<70, 108, 101, 120>>)
HdrLeft == PyStr(<<76, 101, 102, 116>>)
HdrRight == PyStr(<<82, 105, 103, 104, 116>>)
HdrColorUpper == PyStr(<<32, 67, 79, 76, 79, 82>>)

\* the header rows: a template without the Style/Color column, one migrated
\* by ensure_style_column, one whose column C is headed " COLOR"
HeadersB ==
    { << HdrModel, HdrBlade, HdrFlex, HdrLeft, HdrRight >>,
      << HdrModel, PyStr(StrStyleColor), HdrBlade, HdrFlex, HdrLeft, HdrRight >>,
      << HdrModel, HdrColorUpper, HdrBlade, HdrFlex, HdrLeft, HdrRight >> }

\* the cells of a row kind under a header: without a Style column the Style
\* cell is left out
RowUnder(header, kind) ==
    IF Len(header) = 6 THEN kind
    ELSE << kind[1], kind[3], kind[4], kind[5], kind[6] >>

MakeTemplate(header, rows) ==
    LET at(r) == IF r = 1 THEN header ELSE RowUnder(header, rows[r - 1])
        pos == {<<r, c>> : r \in 1..(Len(rows) + 1),
                           c \in 2..(Len(header) + 1)}
    IN  [cells |-> [p \in pos |-> at(p[1])[p[2] - 1]],
         fmt |-> [p \in pos |-> IF p[2] = 2 THEN "ModelFormat"
                                ELSE DefaultFormat],
         width |-> [c \in 1..8 |-> IF c = 2 THEN PyInt(24)
                                   ELSE IF c = 3 THEN PyInt(12) ELSE None],
         max_row |-> Len(rows) + 1]

TemplatesB ==
    {MakeTemplate(h, rows) : h \in HeadersB,
                             rows \in [1..MaxRowsB -> RowKindsB]}

\* the keys ("X", "A", "P", 85) and ("Y", None, "Q", 85)
KeyXAP85 == << PyStr(<<88>>), PyStr(<<65>>), PyStr(<<80>>), PyInt(85) >>
KeyYQ85 == << PyStr(<<89>>), None, PyStr(<<81>>), PyInt(85) >>

\* maps as build_inventory_from_a returns them: a key to its left and right
\* quantities, a side that is not positive absent
InvChoices ==
    { <<>>,
      (KeyXAP85 :> << PyInt(12), PyInt(14) >>) @@ (KeyYQ85 :> << None, PyInt(6) >>),
      (KeyYQ85 :> << PyInt(3), None >>) }

-----------------------------------------------------------------------------
(* SpecTpl: apply_to_b_template, one step per stage and per row *)

InitTpl ==
    /\ pc = "ensure"
    /\ ws_in \in TemplatesB
    /\ ws = ws_in
    /\ inv \in InvChoices
    /\ filldown_b_template \in BOOLEAN
    /\ last_row = 0
    /\ r_b = FirstDataRowB
    /\ current_model = None
    /\ current_style = None
    /\ current_blade = None
    /\ work_key = <<>>
    /\ out_file = None
    /\ calls = 0
    /\ inserted = 0
    /\ NormIdle /\ AggIdle

\* line 277
EnsureStyleColumn ==
    /\ pc = "ensure"
    /\ ws' = ensure_style_column(ws)
    /\ calls' = calls + 1
    /\ inserted' = IF LooksLikeStyle(ws) THEN inserted ELSE inserted + 1
    /\ pc' = "clear"
    /\ UNCHANGED <<ws_in, inv, filldown_b_template, last_row, r_b,
                   current_model, current_style, current_blade, work_key,
                   out_file, normVars, aggVars>>

\* lines 295-306
ClearPass ==
    /\ pc = "clear"
    /\ last_row' = LastRow(ws)
    /\ ws' = ClearQuantities(ws, last_row')
    /\ r_b' = FirstDataRowB
    /\ current_model' = None
    /\ current_style' = None
    /\ current_blade' = None
    /\ pc' = IF FirstDataRowB <= last_row' THEN "scan" ELSE "save"
    /\ UNCHANGED <<ws_in, inv, filldown_b_template, work_key, out_file,
                   calls, inserted, normVars, aggVars>>

\* lines 308-359: reconcile row r_b
ReconcileRow ==
    /\ pc = "scan"
    /\ LET st == ScanRowB(inv, filldown_b_template, r_b,
                    [ws |-> ws, current_model |-> current_model,
                     current_style |-> current_style,
                     current_blade |-> current_blade,
                     keys |-> work_key, raised |-> FALSE])
       IN  /\ ws' = st.ws
           /\ current_model' = st.current_model
           /\ current_style' = st.current_style
           /\ current_blade' = st.current_blade
           /\ work_key' = st.keys
           /\ IF st.raised THEN pc' = "raised" /\ r_b' = r_b
              ELSE IF r_b < last_row THEN pc' = "scan" /\ r_b' = r_b + 1
              ELSE pc' = "save" /\ r_b' = r_b
    /\ UNCHANGED <<ws_in, inv, filldown_b_template, last_row, out_file,
                   calls, inserted, normVars, aggVars>>

\* line 361
Save ==
    /\ pc = "save"
    /\ out_file' = ws
    /\ pc' = "done"
    /\ UNCHANGED <<ws_in, ws, inv, filldown_b_template, last_row, r_b,
                   current_model, current_style, current_blade, work_key,
                   calls, inserted, normVars, aggVars>>

NextTpl == EnsureStyleColumn \/ ClearPass \/ ReconcileRow \/ Save

SpecTpl == InitTpl /\ [][NextTpl]_vars

-----------------------------------------------------------------------------
(* SpecCol: ensure_style_column called again and again on a template *)

InitCol ==
    /\ pc = "col"
    /\ ws_in \in TemplatesB
    /\ ws = ws_in
    /\ calls = 0
    /\ inserted = 0
    /\ inv = <<>>
    /\ filldown_b_template = FALSE
    /\ last_row = 0 /\ r_b = 0
    /\ current_model = None /\ current_style = None /\ current_blade = None
    /\ work_key = <<>> /\ out_file = None
    /\ NormIdle /\ AggIdle

CallEnsureStyleColumn ==
    /\ pc = "col"
    /\ calls < MaxCalls
    /\ ws' = ensure_style_column(ws)
    /\ calls' = calls + 1
    /\ inserted' = IF LooksLikeStyle(ws) THEN inserted ELSE inserted + 1
    /\ UNCHANGED <<pc, ws_in, inv, filldown_b_template, last_row, r_b,
                   current_model, current_style, current_blade, work_key,
                   out_file, normVars, aggVars>>

NextCol == CallEnsureStyleColumn

SpecCol == InitCol /\ [][NextCol]_vars

-----------------------------------------------------------------------------
(* Properties of ensure_style_column and apply_to_b_template *)

\* the template as the reconciliation loop reads it: loaded, then migrated
TemplateRead == ensure_style_column(ws_in)

\* what a row supplies by its own cells
OwnModel(r) ==
    split_model_and_style(CellValue(TemplateRead, r, COL_MODEL))[1]

OwnStyle(r) ==
    PyOr(norm_style(CellValue(TemplateRead, r, COL_STYLE)),
         norm_style(
             split_model_and_style(CellValue(TemplateRead, r, COL_MODEL))[2]))

OwnBlade(r) == norm_blade(CellValue(TemplateRead, r, COL_BLADE))

OwnFlex(r) == parse_flex(CellValue(TemplateRead, r, COL_FLEX))

\* the running values after row r: the latest model and blade a row supplied,
\* and the latest style supplied since the model last changed on a row
\* without a style
RECURSIVE RunningModel(_)
RunningModel(r) ==
    IF r < FirstDataRowB THEN None
    ELSE IF Truthy(OwnModel(r)) THEN OwnModel(r)
    ELSE RunningModel(r - 1)

RECURSIVE RunningBlade(_)
RunningBlade(r) ==
    IF r < FirstDataRowB THEN None
    ELSE IF Truthy(OwnBlade(r)) THEN OwnBlade(r)
    ELSE RunningBlade(r - 1)

RECURSIVE RunningStyle(_)
RunningStyle(r) ==
    IF r < FirstDataRowB THEN None
    ELSE IF Truthy(OwnStyle(r)) THEN OwnStyle(r)
    ELSE IF OwnModel(r) # None /\ OwnModel(r) # RunningModel(r - 1) THEN None
    ELSE RunningStyle(r - 1)

\* a working key with model, blade and flex present
Complete(key) == key[1] # None /\ key[3] # None /\ key[4] # None

DataRowsB == FirstDataRowB..last_row

\* C1: once apply_to_b_template has saved, every data row (row 2 to the last
\* populated row) whose working key is incomplete or is no key of the
\* inventory map has blank Left and Right cells, whatever the template held
\* there.
C1_ClearThenFill ==
    pc = "done" =>
        \A r \in DataRowsB :
            (~Complete(work_key[r]) \/ work_key[r] \notin DOMAIN inv)
                => /\ CellValue(out_file, r, COL_LEFT) = None
                   /\ CellValue(out_file, r, COL_RIGHT) = None

\* C1 happens: a saved template where a row with an incomplete key and a row
\* whose complete key the map lacks both held quantities, now blank
C1_Witness ==
    /\ pc = "done"
    /\ \E r1, r2 \in DataRowsB :
          /\ ~Complete(work_key[r1])
          /\ CellValue(TemplateRead, r1, COL_RIGHT) = PyInt(9)
          /\ CellValue(out_file, r1, COL_RIGHT) = None
          /\ Complete(work_key[r2])
          /\ work_key[r2] \notin DOMAIN inv
          /\ CellValue(TemplateRead, r2, COL_LEFT) = PyInt(9)
          /\ CellValue(out_file, r2, COL_LEFT) = None

\* C2: with fill-down enabled, a reconciled row with a non-blank model that
\* differs from the running model and with no style of its own (Style cell
\* or Model parenthetical) has an absent style in its key and its Style cell
\* stays blank; and a style a row inherits was supplied by an earlier row
\* with the same working model.
C2_StyleBleedContained ==
    filldown_b_template =>
        \A r \in DOMAIN work_key :
            /\ (/\ OwnModel(r) # None
                /\ OwnModel(r) # RunningModel(r - 1)
                /\ ~Truthy(OwnStyle(r)))
                   => /\ work_key[r][2] = None
                      /\ BlankCell(CellValue(ws, r, COL_STYLE))
            /\ (~Truthy(OwnStyle(r)) /\ work_key[r][2] # None)
                   => \E r0 \in FirstDataRowB..(r - 1) :
                         /\ OwnStyle(r0) = work_key[r][2]
                         /\ work_key[r0][1] = work_key[r][1]

\* C2 happens: a row supplies model and style, the next row has no model and
\* inherits the style, the third changes the model without a style and gets
\* none
C2_Witness ==
    /\ pc = "done"
    /\ filldown_b_template
    /\ \E r \in DataRowsB :
          /\ r + 2 \in DataRowsB
          /\ Truthy(OwnModel(r)) /\ Truthy(OwnStyle(r))
          /\ OwnModel(r + 1) = None /\ OwnStyle(r + 1) = None
          /\ work_key[r + 1][2] = OwnStyle(r)
          /\ CellValue(out_file, r + 1, COL_STYLE) = OwnStyle(r)
          /\ Truthy(OwnModel(r + 2)) /\ OwnModel(r + 2) # OwnModel(r)
          /\ OwnStyle(r + 2) = None
          /\ work_key[r + 2][2] = None
          /\ CellValue(out_file, r + 2, COL_STYLE) = None

\* the key the row's own cells and, with fill-down, the running values give
KeyOfRow(r) ==
    << PyOr(OwnModel(r),
            IF filldown_b_template THEN RunningModel(r) ELSE None),
       PyOr(OwnStyle(r),
            IF filldown_b_template THEN RunningStyle(r) ELSE None),
       PyOr(OwnBlade(r),
            IF filldown_b_template THEN RunningBlade(r) ELSE None),
       OwnFlex(r) >>

\* C6: once apply_to_b_template has saved, the working key of every data row
\* takes each field from the row's own cells, else (fill-down enabled) from
\* the running value; a row whose complete key is in the inventory map holds
\* exactly the map's left and right for that key in Left and Right; so rows
\* with equal complete keys hold identical Left and Right.
C6_TemplateLookup ==
    pc = "done" =>
        /\ \A r \in DataRowsB :
              /\ work_key[r] = KeyOfRow(r)
              /\ (Complete(work_key[r]) /\ work_key[r] \in DOMAIN inv)
                    => /\ CellValue(out_file, r, COL_LEFT)
                            = inv[work_key[r]][1]
                       /\ CellValue(out_file, r, COL_RIGHT)
                            = inv[work_key[r]][2]
        /\ \A r1, r2 \in DataRowsB :
              (Complete(work_key[r1]) /\ work_key[r1] = work_key[r2])
                    => /\ CellValue(out_file, r1, COL_LEFT)
                            = CellValue(out_file, r2, COL_LEFT)
                       /\ CellValue(out_file, r1, COL_RIGHT)
                            = CellValue(out_file, r2, COL_RIGHT)

\* C6 happens: two rows, one keyed by its own cells and one by fill-down,
\* share a key of the map and hold its quantities, left differing from right
C6_Witness ==
    /\ pc = "done"
    /\ \E r1, r2 \in DataRowsB :
          /\ r1 < r2
          /\ work_key[r1] = work_key[r2]
          /\ work_key[r1] \in DOMAIN inv
          /\ OwnBlade(r1) # None /\ OwnBlade(r2) = None
          /\ inv[work_key[r1]][1] # inv[work_key[r1]][2]
          /\ CellValue(out_file, r2, COL_LEFT) = inv[work_key[r1]][1]
          /\ CellValue(out_file, r2, COL_RIGHT) = inv[work_key[r1]][2]
          /\ CellValue(out_file, r2, COL_LEFT) # None

\* C9: however often ensure_style_column runs on a template, the Style/Color
\* column is inserted at most once: after the first call the header of
\* column 3 contains "style" or "color" whatever the case, the sheet is the
\* one the first call left, and another call leaves it unchanged.
C9_IdempotentMigration ==
    /\ inserted <= 1
    /\ calls >= 1 =>
          /\ LooksLikeStyle(ws)
          /\ ws = ensure_style_column(ws_in)
          /\ ensure_style_column(ws) = ws

\* C9 happens: a template without the column, migrated by the first of two
\* calls and left alone by the second
C9_Witness ==
    /\ pc = "col"
    /\ calls = 2
    /\ inserted = 1
    /\ ws # ws_in
    /\ CellValue(ws_in, 1, 3) = HdrBlade
    /\ CellValue(ws, 1, 3) = PyStr(StrStyleColor)
    /\ CellValue(ws, 1, 4) = HdrBlade

\* the key that the four cells of one row give by themselves
KeyOfCells(m, st, b, f) ==
    << split_model_and_style(m)[1],
       PyOr(norm_style(st), norm_style(split_model_and_style(m)[2])),
       norm_blade(b),
       parse_flex(f) >>

IsOpenParen(c) == c \in {40, 65288}

IsCloseParen(c) == c \in {41, 65289}

\* out is the text of cell value v in front of its trailing parenthetical,
\* trimmed: v is text ending (but for spaces) in a parenthesised group that
\* holds no parenthesis, ASCII or full-width
StrippedOfParenthetical(v, out) ==
    /\ v.t = "str"
    /\ \E i, j \in 1..Len(v.s) :
          /\ i < j
          /\ IsOpenParen(v.s[i])
          /\ IsCloseParen(v.s[j])
          /\ \A k \in (i + 1)..(j - 1) :
                ~IsOpenParen(v.s[k]) /\ ~IsCloseParen(v.s[k])
          /\ \A k \in (j + 1)..Len(v.s) : IsSpace(v.s[k])
          /\ out = PyStr(StrStrip(SubSeq(v.s, 1, i - 1)))

\* the key, the quantities and the Style and Blade cells of row r when
\* fill-down is disabled
RowLocalExceptModel(r) ==
    /\ work_key[r] = KeyOfCells(CellValue(TemplateRead, r, COL_MODEL),
                                CellValue(TemplateRead, r, COL_STYLE),
                                CellValue(TemplateRead, r, COL_BLADE),
                                CellValue(TemplateRead, r, COL_FLEX))
    /\ (BlankCell(CellValue(TemplateRead, r, COL_MODEL))
         \/ BlankCell(CellValue(TemplateRead, r, COL_BLADE)))
           => /\ CellValue(out_file, r, COL_LEFT) = None
              /\ CellValue(out_file, r, COL_RIGHT) = None
    /\ CellValue(out_file, r, COL_STYLE) = CellValue(TemplateRead, r, COL_STYLE)
    /\ CellValue(out_file, r, COL_BLADE) = CellValue(TemplateRead, r, COL_BLADE)

\* C11 as stated: with fill-down disabled, once apply_to_b_template has
\* saved, every data row has the key its own four cells give, blank Left and
\* Right if its Model or Blade is blank, its Style and Blade cells as loaded,
\* and a Model cell that is as loaded or is the loaded text with its trailing
\* parenthetical stripped.
C11_ModelOnlyStripped ==
    (pc = "done" /\ ~filldown_b_template) =>
        \A r \in DataRowsB :
            /\ RowLocalExceptModel(r)
            /\ \/ CellValue(out_file, r, COL_MODEL)
                      = CellValue(TemplateRead, r, COL_MODEL)
               \/ StrippedOfParenthetical(
                      CellValue(TemplateRead, r, COL_MODEL),
                      CellValue(out_file, r, COL_MODEL))

\* C11: with fill-down disabled, once apply_to_b_template has saved, every
\* data row has the key its own four cells give, blank Left and Right if its
\* Model or Blade is blank, its Style and Blade cells as loaded, and a Model
\* cell that is as loaded or, where the loaded cell embeds a style, is the
\* base split_model_and_style returns for the loaded cell.
C11_FillDownDisabledRowLocal ==
    (pc = "done" /\ ~filldown_b_template) =>
        \A r \in DataRowsB :
            /\ RowLocalExceptModel(r)
            /\ \/ CellValue(out_file, r, COL_MODEL)
                      = CellValue(TemplateRead, r, COL_MODEL)
               \/ /\ split_model_and_style(
                         CellValue(TemplateRead, r, COL_MODEL))[2] # None
                  /\ CellValue(out_file, r, COL_MODEL)
                        = split_model_and_style(
                              CellValue(TemplateRead, r, COL_MODEL))[1]

\* C11 happens: fill-down disabled, a row without a model under a row with
\* one keeps an absent model and loses its quantity, and a row whose Model
\* embeds a style has the parenthetical stripped
C11_Witness ==
    /\ pc = "done"
    /\ ~filldown_b_template
    /\ \E r1, r2, r3 \in DataRowsB :
          /\ r1 < r2
          /\ OwnModel(r1) # None
          /\ CellValue(TemplateRead, r2, COL_MODEL) = None
          /\ work_key[r2][1] = None
          /\ CellValue(out_file, r2, COL_MODEL) = None
          /\ CellValue(TemplateRead, r2, COL_RIGHT) = PyInt(9)
          /\ CellValue(out_file, r2, COL_RIGHT) = None
          /\ CellValue(TemplateRead, r3, COL_MODEL) = PyStr(<<88, 40, 97, 41>>)
          /\ CellValue(out_file, r3, COL_MODEL) = PyStr(<<88>>)

=============================================================================
